---------------------------- MODULE Spec2Model ----------------------------
(***************************************************************************)
(* The file-sharing application.  Share access control and download        *)
(* accounting: the seven unauthenticated access routes of server/routes.ts *)
(* running concurrently against the storage layer (DatabaseStorage); the   *)
(* authenticated routes that upload, read, delete and share a file, and    *)
(* registration; the receive page of the client; the in-memory storage     *)
(* class MemStorage.  A handler is split at its awaits: every storage call *)
(* takes effect in a step of its own, and the synchronous code between two *)
(* awaits is one step.                                                     *)
(***************************************************************************)
EXTENDS Integers, Sequences, FiniteSets, Bags, TLC

\* ------------------------------------------------------------------ bounds

\* Request slots: how many requests can be in flight at once.
NumSlots == 2
\* Requests started in one behaviour of Spec (a slot is reused once its
\* request is done).
MaxRequests == 2
\* Download requests started in one behaviour of SpecRace.
MaxDownloads == 3
\* The clock runs from 0 to MaxTime.
MaxTime == 1
\* Storage writes that throw in one behaviour.
MaxFaults == 1
\* The largest downloadLimit a target is created with.
MaxLimit == 2
\* Authenticated requests that can be in flight at once.
NumCalls == 2
\* Calls of fetchFileInfo that can be in flight at once on the receive page.
NumFetches == 2
\* Calls of fetchFileInfo and handleDownload made in one behaviour of SpecPage.
MaxPageCalls == 4
\* Rows (files and shared links together) created in one behaviour of SpecMem.
MaxMemRows == 3
\* Authenticated requests started in one behaviour of SpecOwner.
MaxCalls == 3
\* File rows created by uploads in one behaviour of SpecUpload.
MaxUploads == 3
\* The largest dailyUploadLimit of a profile in SpecUpload.
MaxUploadLimit == 2

\* ------------------------------------------------------------ stored values

\* null of a nullable integer or timestamp column (downloadLimit, expiresAt)
NULL == -1
\* undefined / empty password of a request: !password is true for it
NoPassword == ""
\* null of the password_hash column
NoHash == [kind |-> "none"]
\* undefined result of a lookup that found no row
NoFile == [id |-> "none"]
NoLink == [id |-> "none"]

Passwords == {"secret", "wrong"}
\* the plaintext given when the protected link was created
LinkPassword == "secret"

FileIds == {"f1"}
LinkIds == {"k1"}
ShareCodes == {"CODE0001"}
ShareTokens == {"token1"}
\* identifiers a request can carry: the stored one and one that matches nothing
CodeParams == ShareCodes \cup {"NOSUCHCD"}
TokenParams == ShareTokens \cup {"notoken"}

\* --------------------------------------------------------------- passwords

VARIABLE
  pw             \* a password being hashed and verified outside any request

\* bcrypt reads the first 72 bytes of a password and ignores the rest
BcryptMaxBytes == 72

\* bcrypt.hashSync(password, rounds): a salted one-way hash; the digest binds
\* the salt and the bytes of the plaintext that bcrypt reads.
Digest(salt, password) ==
  <<salt, IF Len(password) <= BcryptMaxBytes THEN password
          ELSE SubSeq(password, 1, BcryptMaxBytes)>>
bcryptHashSync(password, rounds, salt) ==
  [kind |-> "bcrypt", cost |-> rounds, salt |-> salt, digest |-> Digest(salt, password)]

\* bcrypt.compareSync(password, hash) throws when an argument is undefined or
\* null and, in a build that rejects them (pw.strict), when the hash is not a
\* bcrypt hash; otherwise it is false for anything that is not a bcrypt hash
\* of the password.
bcryptCompareThrows(password, hash) ==
  \/ password = NoPassword
  \/ hash = NoHash
  \/ pw.strict /\ hash.kind # "bcrypt"
bcryptCompareSync(password, hash) ==
  /\ hash.kind = "bcrypt"
  /\ hash.digest = Digest(hash.salt, password)

hashPassword(password, salt) == bcryptHashSync(password, 10, salt)
hashFilePassword(password, salt) == bcryptHashSync(password, 12, salt)

\* a validatePassword whose catch block lets the request through
validatePasswordCatchAllows(password, hash) ==
  IF bcryptCompareThrows(password, hash) THEN TRUE
  ELSE bcryptCompareSync(password, hash)

validatePassword(password, hash) ==
  IF bcryptCompareThrows(password, hash) THEN FALSE
  ELSE bcryptCompareSync(password, hash)

validateFilePassword(password, hash) ==
  IF bcryptCompareThrows(password, hash) THEN FALSE
  ELSE bcryptCompareSync(password, hash)

\* A share code handed to validatePassword as if it were a hash.
CodeAsHash(shareCode) == [kind |-> "plain", text |-> shareCode]

\* btoa(str): the base64 text of the string
btoa(str) == [kind |-> "base64", text |-> str]
\* MemStorage.hashPassword
memHashPassword(password) == btoa(password \o "salt")
\* MemStorage.validatePassword
memValidatePassword(password, hash) == memHashPassword(password) = hash


\* ------------------------------------------------------------------ routes

\* GET /api/download/code/:shareCode
RCode == "download/code"
\* GET /api/public/file/:shareCode
RPublicFile == "public/file"
\* GET /api/public/download/:shareCode
RPublicDownload == "public/download"
\* GET /api/shared-links/:token
RSharedLinks == "shared-links"
\* POST /api/download/link/:token
RDownloadLink == "download/link"
\* GET /api/shared/:token
RShared == "shared"
\* POST /api/download/shared/:token
RDownloadShared == "download/shared"

CodeRoutes == {RCode, RPublicFile, RPublicDownload}
TokenRoutes == {RSharedLinks, RDownloadLink, RShared, RDownloadShared}
DownloadRoutes == {RCode, RPublicDownload, RDownloadLink, RDownloadShared}
InfoRoutes == {RPublicFile, RSharedLinks, RShared}
Routes == CodeRoutes \cup TokenRoutes
\* routes whose handler reads a password from the request
PasswordRoutes == {RPublicFile, RPublicDownload, RDownloadLink, RShared, RDownloadShared}

\* --------------------------------------------------------------- responses

Deny(status, error) == [status |-> status, error |-> error, body |-> "error"]
\* res.download / res.sendFile of a file that is on disk
ServedFile == [status |-> 200, error |-> "", body |-> "file"]
\* res.json of the file's (and link's) metadata
ServedMeta == [status |-> 200, error |-> "", body |-> "meta"]
\* the catch block of every handler
ServerError == [status |-> 500, error |-> "storage error", body |-> "error"]
\* res.download / res.sendFile of a path that is not on disk
SendError == [status |-> 404, error |-> "ENOENT", body |-> "error"]
\* not a response: the checks let the request through
PASS == [status |-> 0, error |-> "", body |-> "pass"]
NoResponse == [status |-> 0, error |-> "", body |-> "none"]

\* ------------------------------------------------------------------- state

VARIABLES
  files,         \* files table: file id -> row
  links,         \* shared_links table: link id -> row
  downloadLogs,  \* download_logs table: a bag of rows
  disk,          \* ids of the files whose bytes are on disk
  now,           \* the clock read by new Date()
  req,           \* slot -> the request in it
  started,       \* requests started so far
  faults,        \* storage writes that threw so far
  attempts,      \* download route -> requests that named the stored target
  served,        \* download route -> requests that were sent the file
  incs,          \* download route -> downloadCount writes applied to its target
  users,         \* users table: user id -> row
  profiles,      \* profiles table: user id -> row
  calls,         \* slot -> the authenticated request in it
  page,          \* the receive page's component state
  mem            \* the maps of a MemStorage instance

\* the state outside the share routes: accounts, authenticated requests, the
\* receive page, the in-memory storage
appVars == <<users, profiles, calls, page, mem>>

vars == <<files, links, downloadLogs, disk, now, req, started, faults, attempts, served,
          incs, pw, appVars>>

Slots == 1..NumSlots

IdleRequest ==
  [pc |-> "idle", route |-> RCode, param |-> "", password |-> NoPassword,
   link |-> NoLink, file |-> NoFile, resp |-> NoResponse, late |-> FALSE,
   full |-> FALSE, wrote |-> 0, failed |-> "none", revoked |-> FALSE, why |-> {}]

\* ----------------------------------------------------------------- storage

getFile(id) == IF id \in DOMAIN files THEN files[id] ELSE NoFile

getFileByShareCode(shareCode) ==
  IF \E f \in DOMAIN files : files[f].shareCode = shareCode
  THEN files[CHOOSE f \in DOMAIN files : files[f].shareCode = shareCode]
  ELSE NoFile

getSharedLink(token) ==
  IF \E k \in DOMAIN links : links[k].shareToken = token
  THEN links[CHOOSE k \in DOMAIN links : links[k].shareToken = token]
  ELSE NoLink

\* db.update(files).set({downloadCount}).where(id): the value is stored as given
updateFile(id, downloadCount) ==
  IF id \in DOMAIN files
  THEN [files EXCEPT ![id].downloadCount = downloadCount]
  ELSE files

\* db.update(sharedLinks).set({isActive}).where(id)
setSharedLinkActive(id, isActive) ==
  IF id \in DOMAIN links
  THEN [links EXCEPT ![id].isActive = isActive]
  ELSE links

\* an update that writes the whole row back with is_active at its default
updateSharedLinkResetsActive(id, downloadCount) ==
  IF id \in DOMAIN links
  THEN [links EXCEPT ![id].downloadCount = downloadCount, ![id].isActive = TRUE]
  ELSE links

\* db.update(sharedLinks).set({downloadCount}).where(id): no other column is set
updateSharedLink(id, downloadCount) ==
  IF id \in DOMAIN links
  THEN [links EXCEPT ![id].downloadCount = downloadCount]
  ELSE links

createDownloadLog(fileId, sharedLinkId, downloadMethod) ==
  downloadLogs (+) SetToBag({[fileId |-> fileId, sharedLinkId |-> sharedLinkId,
                              downloadMethod |-> downloadMethod]})

\* the shared_links rows left by a delete of the file without the
\* ON DELETE CASCADE of shared_links.file_id
cascadeSharedLinksNone(fileId) == links

\* ON DELETE CASCADE of shared_links.file_id: the links of a deleted file go
cascadeSharedLinks(fileId) ==
  [k \in {x \in DOMAIN links : links[x].fileId # fileId} |-> links[k]]

\* ON DELETE CASCADE of download_logs.file_id: the logs of a deleted file go
cascadeDownloadLogs(fileId) ==
  [l \in {x \in DOMAIN downloadLogs : x.fileId # fileId} |-> downloadLogs[l]]

\* db.delete(files).where(id)
deleteFile(id) == [f \in DOMAIN files \ {id} |-> files[f]]

\* download_logs.file_id references files.id: an insert for a file row that
\* is gone is rejected
ForeignKeyViolation(fileId) == fileId \notin DOMAIN files

\* fs.existsSync(filePath)
existsSync(fileId) == fileId \in disk

\* ------------------------------------------------------------ route checks

\* x.expiresAt && new Date() > x.expiresAt  (a Date is always truthy)
Expired(target, clock) == target.expiresAt # NULL /\ clock > target.expiresAt

\* a limit test that lets one download too many through (> for >=)
LimitReachedOffByOne(target) ==
  /\ target.downloadLimit # NULL
  /\ target.downloadLimit # 0
  /\ target.downloadCount > target.downloadLimit

\* x.downloadLimit && x.downloadCount >= x.downloadLimit  (0 and null are falsy)
LimitReached(target) ==
  /\ target.downloadLimit # NULL
  /\ target.downloadLimit # 0
  /\ target.downloadCount >= target.downloadLimit

\* downloadLimit holds an integer (0 included) and downloadCount has reached it
AtLimit(target) ==
  target.downloadLimit # NULL /\ target.downloadCount >= target.downloadLimit

\* GET /api/download/code/:shareCode, up to the first storage write
CheckDownloadCode(file, password, clock) ==
  IF file = NoFile THEN Deny(404, "File not found")
  ELSE IF Expired(file, clock) THEN Deny(410, "File has expired")
  ELSE IF LimitReached(file) THEN Deny(429, "Download limit exceeded")
  ELSE PASS

\* GET /api/public/file/:shareCode
CheckPublicFile(file, password, clock) ==
  IF file = NoFile THEN Deny(404, "File not found")
  ELSE IF ~file.isPublic THEN Deny(403, "File is not publicly accessible")
  ELSE IF file.isLocked /\ password = NoPassword THEN Deny(401, "Password required")
  ELSE IF /\ file.isLocked
          /\ password # NoPassword
          /\ ~validatePassword(password, CodeAsHash(file.shareCode))
       THEN Deny(401, "Invalid password")
  ELSE IF Expired(file, clock) THEN Deny(410, "File has expired")
  ELSE IF LimitReached(file) THEN Deny(410, "Download limit exceeded")
  ELSE PASS

\* GET /api/public/download/:shareCode without its fs.existsSync check
CheckPublicDownloadNoDiskCheck(file, password, clock) ==
  IF file = NoFile THEN Deny(404, "File not found")
  ELSE IF ~file.isPublic THEN Deny(403, "File is not publicly accessible")
  ELSE IF file.isLocked /\ password = NoPassword THEN Deny(401, "Password required")
  ELSE IF file.isLocked /\ ~validatePassword(password, CodeAsHash(file.shareCode))
       THEN Deny(401, "Invalid password")
  ELSE IF Expired(file, clock) THEN Deny(410, "File has expired")
  ELSE IF LimitReached(file) THEN Deny(410, "Download limit exceeded")
  ELSE PASS

\* GET /api/public/download/:shareCode, up to the first storage write
CheckPublicDownload(file, password, clock) ==
  IF file = NoFile THEN Deny(404, "File not found")
  ELSE IF ~file.isPublic THEN Deny(403, "File is not publicly accessible")
  ELSE IF file.isLocked /\ password = NoPassword THEN Deny(401, "Password required")
  ELSE IF file.isLocked /\ ~validatePassword(password, CodeAsHash(file.shareCode))
       THEN Deny(401, "Invalid password")
  ELSE IF Expired(file, clock) THEN Deny(410, "File has expired")
  ELSE IF LimitReached(file) THEN Deny(410, "Download limit exceeded")
  ELSE IF ~existsSync(file.id) THEN Deny(404, "File not found on server")
  ELSE PASS

\* GET /api/shared-links/:token, up to getFile
CheckSharedLinks(link, password, clock) ==
  IF link = NoLink \/ ~link.isActive THEN Deny(404, "Share link not found")
  ELSE IF Expired(link, clock) THEN Deny(410, "Share link has expired")
  ELSE PASS

\* POST /api/download/link/:token without its expiry check
CheckDownloadLinkNoExpiry(link, password, clock) ==
  IF link = NoLink \/ ~link.isActive THEN Deny(404, "Share link not found")
  ELSE IF link.passwordHash # NoHash /\ ~validatePassword(password, link.passwordHash)
       THEN Deny(401, "Invalid password")
  ELSE IF LimitReached(link) THEN Deny(429, "Download limit exceeded")
  ELSE PASS

\* POST /api/download/link/:token, up to getFile
CheckDownloadLink(link, password, clock) ==
  IF link = NoLink \/ ~link.isActive THEN Deny(404, "Share link not found")
  ELSE IF link.passwordHash # NoHash /\ ~validatePassword(password, link.passwordHash)
       THEN Deny(401, "Invalid password")
  ELSE IF Expired(link, clock) THEN Deny(410, "Share link has expired")
  ELSE IF LimitReached(link) THEN Deny(429, "Download limit exceeded")
  ELSE PASS

\* GET /api/shared/:token, up to getFile
CheckShared(link, password, clock) ==
  IF link = NoLink THEN Deny(404, "Shared link not found")
  ELSE IF ~link.isActive THEN Deny(410, "Shared link is inactive")
  ELSE IF Expired(link, clock) THEN Deny(410, "Shared link has expired")
  ELSE IF LimitReached(link) THEN Deny(410, "Download limit exceeded")
  ELSE IF link.passwordHash # NoHash /\ password = NoPassword
       THEN Deny(401, "Password required")
  ELSE IF link.passwordHash # NoHash /\ ~validatePassword(password, link.passwordHash)
       THEN Deny(401, "Invalid password")
  ELSE PASS

\* POST /api/download/shared/:token without its isActive check
CheckDownloadSharedNoActive(link, password, clock) ==
  IF link = NoLink THEN Deny(404, "Shared link not found")
  ELSE IF Expired(link, clock) THEN Deny(410, "Shared link has expired")
  ELSE IF LimitReached(link) THEN Deny(410, "Download limit exceeded")
  ELSE IF link.passwordHash # NoHash /\ password = NoPassword
       THEN Deny(401, "Password required")
  ELSE IF link.passwordHash # NoHash /\ ~validateFilePassword(password, link.passwordHash)
       THEN Deny(401, "Invalid password")
  ELSE PASS

\* POST /api/download/shared/:token, up to getFile
CheckDownloadShared(link, password, clock) ==
  IF link = NoLink \/ ~link.isActive THEN Deny(404, "Shared link not found")
  ELSE IF Expired(link, clock) THEN Deny(410, "Shared link has expired")
  ELSE IF LimitReached(link) THEN Deny(410, "Download limit exceeded")
  ELSE IF link.passwordHash # NoHash /\ password = NoPassword
       THEN Deny(401, "Password required")
  ELSE IF link.passwordHash # NoHash /\ ~validateFilePassword(password, link.passwordHash)
       THEN Deny(401, "Invalid password")
  ELSE PASS

\* The conditions the handlers test, as they hold of a looked-up row: the row
\* is missing, the link is inactive, the file is not public, the expiry time
\* has passed, the download limit is reached, the target asks for a password
\* and none was sent, or one was sent that does not verify (for a locked file
\* no password verifies: the file row stores none).
Reasons(route, target, password, clock) ==
  IF target.id = "none" THEN {"not found"}
  ELSE {x \in {"inactive"} : route \in TokenRoutes /\ ~target.isActive}
       \cup {x \in {"not public"} : route \in CodeRoutes /\ ~target.isPublic}
       \cup {x \in {"expired"} : Expired(target, clock)}
       \cup {x \in {"limit reached"} : AtLimit(target)}
       \cup {x \in {"password required"} :
               /\ password = NoPassword
               /\ IF route \in CodeRoutes THEN target.isLocked
                  ELSE target.passwordHash # NoHash}
       \cup {x \in {"password invalid"} :
               /\ password # NoPassword
               /\ IF route \in CodeRoutes THEN target.isLocked
                  ELSE /\ target.passwordHash # NoHash
                       /\ ~validatePassword(password, target.passwordHash)}

\* the checks a handler makes on the row its first lookup returned
RouteCheck(route, target, password, clock) ==
  CASE route = RCode -> CheckDownloadCode(target, password, clock)
    [] route = RPublicFile -> CheckPublicFile(target, password, clock)
    [] route = RPublicDownload -> CheckPublicDownload(target, password, clock)
    [] route = RSharedLinks -> CheckSharedLinks(target, password, clock)
    [] route = RDownloadLink -> CheckDownloadLink(target, password, clock)
    [] route = RShared -> CheckShared(target, password, clock)
    [] route = RDownloadShared -> CheckDownloadShared(target, password, clock)

\* after getFile(link.fileId) of a token route: the file row, and for
\* POST /api/download/shared its bytes on disk
CheckLinkedFile(route, file) ==
  IF file = NoFile THEN Deny(404, "File not found")
  ELSE IF route = RDownloadShared /\ ~existsSync(file.id)
       THEN Deny(404, "File not found on server")
  ELSE PASS

\* the storage writes of a download handler, in the order it awaits them
WriteOps(route) ==
  CASE route = RCode -> <<"log", "file">>
    [] route = RPublicDownload -> <<"file", "log">>
    [] route = RDownloadLink -> <<"log", "link", "file">>
    [] route = RDownloadShared -> <<"link", "log">>
    [] OTHER -> <<>>

\* downloadMethod of the route's download log
DownloadMethod(route) ==
  CASE route = RCode -> "code"
    [] route = RPublicDownload -> "public_link"
    [] route = RDownloadLink -> "link"
    [] route = RDownloadShared -> "shared_link"
    [] OTHER -> "none"

\* the counter of the target a download route is called on: the file's for a
\* share code, the link's for a token
TargetCounter(route) == IF route \in CodeRoutes THEN "file" ELSE "link"

\* res.download(file.storagePath) / res.sendFile(filePath)
SendFile(fileId) == IF fileId \in disk THEN ServedFile ELSE SendError

\* ------------------------------------------------------------ initial state

\* downloadLimit of a created target: null, or parseInt of the form field (0 included)
Limits == {NULL} \cup (0..MaxLimit)
\* expiresAt of a created target: null, or the instant 0
ExpiryTimes == {NULL, 0}
\* passwordHash of a created link: null, or the hash POST /api/share/email stores
PasswordHashes == {NoHash, hashFilePassword(LinkPassword, "salt1")}

FileRows ==
  [id : {"f1"}, userId : {"u1"}, shareCode : ShareCodes, isPublic : BOOLEAN,
   isLocked : BOOLEAN,
   downloadLimit : Limits, downloadCount : {0}, expiresAt : ExpiryTimes]

LinkRows ==
  [id : {"k1"}, fileId : {"f1"}, shareToken : ShareTokens, passwordHash : PasswordHashes,
   expiresAt : ExpiryTimes, downloadLimit : Limits, downloadCount : {0},
   isActive : BOOLEAN]

\* a file as POST /api/files/upload creates it when only isPublic is sent
DefaultFile ==
  [id |-> "f1", userId |-> "u1", shareCode |-> "CODE0001", isPublic |-> TRUE,
   isLocked |-> FALSE,
   downloadLimit |-> NULL, downloadCount |-> 0, expiresAt |-> NULL]

\* a link as POST /api/shared-links creates it when only the file is named
DefaultLink ==
  [id |-> "k1", fileId |-> "f1", shareToken |-> "token1", passwordHash |-> NoHash,
   expiresAt |-> NULL, downloadLimit |-> NULL, downloadCount |-> 0, isActive |-> TRUE]

\* no password under test; the bcrypt build answers false to a malformed hash
PwIdle ==
  [stage |-> "idle", strict |-> FALSE, hashFn |-> "none", validateFn |-> "none",
   route |-> "none", p |-> NoPassword, q |-> NoPassword, salt |-> "",
   hash |-> NoHash, result |-> FALSE, decision |-> NoResponse]

\* user ids, the file's owner first
UserIds == {"u1", "u2"}
Emails == {"a@x", "b@x"}
\* dailyUploadLimit of a profile POST /api/auth/register creates
FreeDailyUploadLimit == 10

\* an authenticated-request slot with no request in it
IdleCall ==
  [pc |-> "idle", seq |-> 0, route |-> "none", user |-> "none", fileId |-> "none",
   password |-> NoPassword, email |-> "none", profile |-> [id |-> "none"],
   row |-> "none", token |-> "none", before |-> {}, resp |-> NoResponse]

CallSlots == 1..NumCalls

\* a call of fetchFileInfo or handleDownload that has not been made
IdlePageCall == [pc |-> "idle", outcome |-> "none"]

FetchSlots == 1..NumFetches

\* the receive page as first rendered: the useState defaults, the effect that
\* calls fetchFileInfo not run yet
PageIdle ==
  [mounted |-> FALSE, loading |-> TRUE, downloading |-> FALSE,
   requiresPassword |-> FALSE, error |-> "", hasInfo |-> FALSE,
   fetch |-> [i \in FetchSlots |-> IdlePageCall], download |-> IdlePageCall,
   made |-> 0]

\* new Map()
EmptyMap == [k \in {} |-> "none"]

\* a MemStorage instance as constructed; issued counts the ids
\* crypto.randomUUID has given out
MemEmpty ==
  [files |-> EmptyMap, sharedLinks |-> EmptyMap, shareCodeToFileId |-> EmptyMap,
   shareTokenToLinkId |-> EmptyMap, issued |-> 0]

\* The file's owner is registered, no authenticated request is in flight, the
\* receive page is not open and the in-memory storage is empty.
AppIdle ==
  /\ users = [u \in {"u1"} |-> [id |-> "u1", email |-> "a@x"]]
  /\ profiles = [u \in {"u1"} |->
                   [id |-> "u1", dailyUploadCount |-> 0,
                    dailyUploadLimit |-> FreeDailyUploadLimit]]
  /\ calls = [c \in CallSlots |-> IdleCall]
  /\ page = PageIdle
  /\ mem = MemEmpty

\* nothing requested yet
InitRequests ==
  /\ downloadLogs = EmptyBag
  /\ now = 0
  /\ req = [r \in Slots |-> IdleRequest]
  /\ started = 0
  /\ faults = 0
  /\ attempts = [rt \in DownloadRoutes |-> 0]
  /\ served = [rt \in DownloadRoutes |-> 0]
  /\ incs = [rt \in DownloadRoutes |-> 0]
  /\ pw = PwIdle
  /\ AppIdle

\* One uploaded file and one shared link to it, no download made yet.  Either
\* the file or the link carries the access settings under study and the other
\* is the default row; or both are default and the file's bytes are gone.
Init ==
  /\ \/ /\ files \in [FileIds -> FileRows]
        /\ links = [k \in LinkIds |-> DefaultLink]
        /\ disk = FileIds
     \/ /\ files = [f \in FileIds |-> DefaultFile]
        /\ links \in [LinkIds -> LinkRows]
        /\ disk = FileIds
     \/ /\ files = [f \in FileIds |-> DefaultFile]
        /\ links = [k \in LinkIds |-> DefaultLink]
        /\ disk = {}
  /\ InitRequests

\* A public, unlocked file and an active link without password, neither
\* expiring, each with any download limit: every download request passes all
\* checks but the limit.
InitRace ==
  /\ \E limit \in Limits :
       files = [f \in FileIds |-> [DefaultFile EXCEPT !.downloadLimit = limit]]
  /\ \E limit \in Limits :
       links = [k \in LinkIds |-> [DefaultLink EXCEPT !.downloadLimit = limit]]
  /\ disk = FileIds
  /\ InitRequests

\* ------------------------------------------------------------------ actions

Free(r) == req[r].pc \in {"idle", "done"}

\* the row a request's identifier names, as stored now
Target(route, param) ==
  IF route \in CodeRoutes THEN getFileByShareCode(param) ELSE getSharedLink(param)

Exists(route, param) ==
  IF route \in CodeRoutes THEN Target(route, param) # NoFile
  ELSE Target(route, param) # NoLink

\* the target asks for a password: a locked file, a link with a password hash
Protected(route, param) ==
  /\ Exists(route, param)
  /\ IF route \in CodeRoutes THEN Target(route, param).isLocked
     ELSE Target(route, param).passwordHash # NoHash

\* the handler answers: the slot keeps the request, its response and the
\* conditions that held of the row it checked
Respond(r, resp, why) ==
  /\ req' = [req EXCEPT ![r].pc = "done", ![r].resp = resp, ![r].why = why,
                        ![r].link = NoLink, ![r].file = NoFile]
  /\ served' = IF resp = ServedFile /\ req[r].route \in DownloadRoutes
               THEN [served EXCEPT ![req[r].route] = @ + 1]
               ELSE served

\* A request arrives and its handler issues the first lookup.  Requests take
\* the lowest free slot.  A password is sent only to a route that reads one
\* and for a target that asks for one.
Arrive(r, route, param, password) ==
  /\ Free(r)
  /\ \A q \in Slots : Free(q) => r <= q
  /\ param \in (IF route \in CodeRoutes THEN CodeParams ELSE TokenParams)
  /\ password # NoPassword => route \in PasswordRoutes /\ Protected(route, param)
  /\ req' = [req EXCEPT ![r] =
       [pc |-> "lookup", route |-> route, param |-> param, password |-> password,
        link |-> NoLink, file |-> NoFile, resp |-> NoResponse,
        late |-> Exists(route, param) /\ Expired(Target(route, param), now),
        full |-> Exists(route, param) /\ AtLimit(Target(route, param)),
        wrote |-> 0, failed |-> "none", revoked |-> FALSE, why |-> {}]]
  /\ started' = started + 1
  /\ attempts' = IF route \in DownloadRoutes /\ Exists(route, param)
                 THEN [attempts EXCEPT ![route] = @ + 1]
                 ELSE attempts
  /\ UNCHANGED <<appVars, pw, files, links, downloadLogs, disk, now, faults, served, incs>>

\* any request on any of the seven routes
Start(r, route, param, password) ==
  /\ started < MaxRequests
  /\ Arrive(r, route, param, password)

\* a download request for the stored file or link
StartDownload(r, route) ==
  /\ started < MaxDownloads
  /\ route \in DownloadRoutes
  /\ Arrive(r, route,
            IF route \in CodeRoutes THEN "CODE0001" ELSE "token1", NoPassword)

\* a first step of a download handler that writes the download log of a
\* request for a stored file before it runs its checks
LookupLoggingFirst(r) ==
  /\ req[r].pc = "lookup"
  /\ LET route == req[r].route
         target == Target(route, req[r].param)
         d == RouteCheck(route, target, req[r].password, now)
         why == Reasons(route, target, req[r].password, now)
     IN  /\ IF d # PASS THEN Respond(r, d, why)
            ELSE IF route \in TokenRoutes
              THEN req' = [req EXCEPT ![r].pc = "getfile", ![r].link = target,
                                      ![r].why = why]
                   /\ UNCHANGED served
            ELSE IF route \in InfoRoutes THEN Respond(r, ServedMeta, why)
            ELSE req' = [req EXCEPT ![r].pc = "write", ![r].file = target,
                                    ![r].why = why]
                 /\ UNCHANGED served
         /\ downloadLogs' =
              IF route \in {RCode, RPublicDownload} /\ target # NoFile
              THEN createDownloadLog(target.id, "none", DownloadMethod(route))
              ELSE downloadLogs
  /\ UNCHANGED <<appVars, pw, files, links, disk, now, started, faults, attempts, incs>>

\* storage.getFileByShareCode / storage.getSharedLink returns the row as
\* stored, and the handler runs its checks on it (against the clock as it is)
\* up to its next await.
Lookup(r) ==
  /\ req[r].pc = "lookup"
  /\ LET route == req[r].route
         target == Target(route, req[r].param)
         d == RouteCheck(route, target, req[r].password, now)
         why == Reasons(route, target, req[r].password, now)
     IN  IF d # PASS THEN Respond(r, d, why)
         ELSE IF route \in TokenRoutes
           THEN req' = [req EXCEPT ![r].pc = "getfile", ![r].link = target,
                                   ![r].why = why]
                /\ UNCHANGED served
         ELSE IF route \in InfoRoutes
           THEN Respond(r, ServedMeta, why)
         ELSE req' = [req EXCEPT ![r].pc = "write", ![r].file = target,
                                 ![r].why = why]
              /\ UNCHANGED served
  /\ UNCHANGED <<appVars, pw, files, links, downloadLogs, disk, now, started, faults, attempts, incs>>

\* storage.getFile(link.fileId) of a handler that counted a view of
\* GET /api/shared/:token as a download of the link.
GetFileCountingViews(r) ==
  /\ req[r].pc = "getfile"
  /\ LET route == req[r].route
         file == getFile(req[r].link.fileId)
         d == CheckLinkedFile(route, file)
     IN  /\ IF d # PASS THEN Respond(r, d, req[r].why)
            ELSE IF route \in InfoRoutes THEN Respond(r, ServedMeta, req[r].why)
            ELSE req' = [req EXCEPT ![r].pc = "write", ![r].file = file]
                 /\ UNCHANGED served
         /\ links' = IF d = PASS /\ route = RShared
                     THEN updateSharedLink(req[r].link.id, req[r].link.downloadCount + 1)
                     ELSE links
  /\ UNCHANGED <<appVars, pw, files, downloadLogs, disk, now, started, faults, attempts, incs>>

\* storage.getFile(link.fileId) of a token route, and the checks on its result
GetFile(r) ==
  /\ req[r].pc = "getfile"
  /\ LET route == req[r].route
         file == getFile(req[r].link.fileId)
         d == CheckLinkedFile(route, file)
     IN  IF d # PASS THEN Respond(r, d, req[r].why)
         ELSE IF route \in InfoRoutes THEN Respond(r, ServedMeta, req[r].why)
         ELSE req' = [req EXCEPT ![r].pc = "write", ![r].file = file]
              /\ UNCHANGED served
  /\ UNCHANGED <<appVars, pw, files, links, downloadLogs, disk, now, started, faults, attempts, incs>>

\* the write is an update of a link row that was deactivated after the
\* handler read it
WritesRevoked(op, link) ==
  /\ op = "link"
  /\ link.id \in DOMAIN links
  /\ ~links[link.id].isActive

\* The next storage write of a download handler takes effect; after the last
\* one the handler sends the file.
Write(r) ==
  /\ req[r].pc = "write"
  /\ ~(WriteOps(req[r].route)[req[r].wrote + 1] = "log"
        /\ ForeignKeyViolation(req[r].file.id))
  /\ LET route == req[r].route
         ops == WriteOps(route)
         op == ops[req[r].wrote + 1]
         file == req[r].file
         link == req[r].link
     IN  /\ files' = IF op = "file"
                     THEN updateFile(file.id, file.downloadCount + 1)
                     ELSE files
         /\ links' = IF op = "link"
                     THEN updateSharedLink(link.id, link.downloadCount + 1)
                     ELSE links
         /\ downloadLogs' =
              IF op = "log"
              THEN createDownloadLog(file.id,
                                     IF route \in TokenRoutes THEN link.id ELSE "none",
                                     DownloadMethod(route))
              ELSE downloadLogs
         /\ incs' = IF /\ op = TargetCounter(route)
                       /\ IF op = "file" THEN file.id \in DOMAIN files
                          ELSE link.id \in DOMAIN links
                    THEN [incs EXCEPT ![route] = @ + 1]
                    ELSE incs
         /\ IF req[r].wrote + 1 = Len(ops)
            THEN /\ req' = [req EXCEPT ![r].pc = "done", ![r].resp = SendFile(file.id),
                                       ![r].wrote = @ + 1,
                                       ![r].revoked = @ \/ WritesRevoked(op, link),
                                       ![r].link = NoLink, ![r].file = NoFile]
                 /\ served' = IF SendFile(file.id) = ServedFile
                              THEN [served EXCEPT ![route] = @ + 1]
                              ELSE served
            ELSE /\ req' = [req EXCEPT ![r].wrote = @ + 1,
                                       ![r].revoked = @ \/ WritesRevoked(op, link)]
                 /\ UNCHANGED served
  /\ UNCHANGED <<appVars, pw, disk, now, started, faults, attempts>>

\* The next storage write throws and a handler that ignored the error goes on
\* to its next statement.
WriteFailIgnored(r) ==
  /\ req[r].pc = "write"
  /\ faults < MaxFaults
  /\ faults' = faults + 1
  /\ LET route == req[r].route
         ops == WriteOps(route)
         sent == SendFile(req[r].file.id)
     IN  IF req[r].wrote + 1 = Len(ops)
         THEN /\ req' = [req EXCEPT ![r].pc = "done", ![r].resp = sent,
                                    ![r].failed = ops[req[r].wrote + 1],
                                    ![r].wrote = @ + 1,
                                    ![r].link = NoLink, ![r].file = NoFile]
              /\ served' = IF sent = ServedFile
                           THEN [served EXCEPT ![route] = @ + 1]
                           ELSE served
         ELSE /\ req' = [req EXCEPT ![r].failed = ops[req[r].wrote + 1],
                                    ![r].wrote = @ + 1]
              /\ UNCHANGED served
  /\ UNCHANGED <<appVars, pw, files, links, downloadLogs, disk, now, started, attempts, incs>>

\* The next storage write throws: the rest of the try block is skipped and the
\* catch block answers 500.
WriteFail(r) ==
  /\ req[r].pc = "write"
  /\ faults < MaxFaults
  /\ faults' = faults + 1
  /\ req' = [req EXCEPT ![r].pc = "done", ![r].resp = ServerError,
                        ![r].failed = WriteOps(req[r].route)[req[r].wrote + 1],
                        ![r].link = NoLink, ![r].file = NoFile]
  /\ UNCHANGED <<appVars, pw, files, links, downloadLogs, disk, now, started, attempts, served, incs>>

\* The download log insert of a request whose file row has been deleted is
\* rejected by the foreign key: the catch block answers 500.
WriteRejected(r) ==
  /\ req[r].pc = "write"
  /\ WriteOps(req[r].route)[req[r].wrote + 1] = "log"
  /\ ForeignKeyViolation(req[r].file.id)
  /\ req' = [req EXCEPT ![r].pc = "done", ![r].resp = ServerError,
                        ![r].failed = "log",
                        ![r].link = NoLink, ![r].file = NoFile]
  /\ UNCHANGED <<appVars, pw, files, links, downloadLogs, disk, now, started, faults, attempts,
                 served, incs>>

\* DELETE /api/files/:id by the file's owner, up to its await of
\* storage.deleteFile: the row is found and the bytes are unlinked.
DeleteUnlink(id) ==
  /\ getFile(id) # NoFile
  /\ id \in disk
  /\ disk' = disk \ {id}
  /\ UNCHANGED <<appVars, pw, files, links, downloadLogs, now, req, started, faults, attempts,
                 served, incs>>

\* storage.deleteFile of DELETE /api/files/:id takes effect (the bytes are
\* gone, or were never there: the failed unlink is ignored): the file row is
\* deleted and the database deletes the rows that reference it.
DeleteRows(id) ==
  /\ getFile(id) # NoFile
  /\ id \notin disk
  /\ files' = deleteFile(id)
  /\ links' = cascadeSharedLinks(id)
  /\ downloadLogs' = cascadeDownloadLogs(id)
  /\ UNCHANGED <<appVars, pw, disk, now, req, started, faults, attempts, served, incs>>

\* The link is deactivated: storage.updateSharedLink(id, { isActive: false }).
Deactivate(id) ==
  /\ id \in DOMAIN links
  /\ links[id].isActive
  /\ links' = setSharedLinkActive(id, FALSE)
  /\ UNCHANGED <<appVars, pw, files, downloadLogs, disk, now, req, started, faults, attempts,
                 served, incs>>

\* time passes
Tick ==
  /\ now < MaxTime
  /\ now' = now + 1
  /\ UNCHANGED <<appVars, pw, files, links, downloadLogs, disk, req, started, faults, attempts,
                 served, incs>>

Next ==
  \/ \E r \in Slots, route \in Routes, param \in CodeParams \cup TokenParams,
        password \in {NoPassword} \cup Passwords :
       Start(r, route, param, password)
  \/ \E r \in Slots : Lookup(r)
  \/ \E r \in Slots : GetFile(r)
  \/ \E r \in Slots : Write(r)
  \/ \E r \in Slots : WriteFail(r)
  \/ Tick

\* requests of every kind against every setting of the file or of the link
Spec == Init /\ [][Next]_vars

NextDelete ==
  \/ Next
  \/ \E r \in Slots : WriteRejected(r)
  \/ \E id \in FileIds : DeleteUnlink(id)
  \/ \E id \in FileIds : DeleteRows(id)

\* requests of every kind while the owner deletes the file
SpecDelete == Init /\ [][NextDelete]_vars

\* ---------------------------------------------- passwords hashed and verified

A8 == "aaaaaaaa"
\* a password of exactly BcryptMaxBytes bytes
Long72 == A8 \o A8 \o A8 \o A8 \o A8 \o A8 \o A8 \o A8 \o A8
\* non-empty passwords: short ones, and long ones that differ after byte 72
PasswordInputs == {"secret", "wrong", Long72, Long72 \o "x", Long72 \o "y"}
\* the salt bcrypt.hashSync draws
Salts == {"salt1", "salt2"}
\* password_hash values that are text but no bcrypt hash
MalformedHashes ==
  {[kind |-> "plain", text |-> "secret"], [kind |-> "plain", text |-> "$2b$12$cut"]}

\* the hashing and validating functions of one storage class
HashFns == {"hashPassword", "hashFilePassword"}
ValidateFns == {"validatePassword", "validateFilePassword"}
FnPairs ==
  (HashFns \X ValidateFns) \cup {<<"MemStorage.hashPassword", "MemStorage.validatePassword">>}

\* the routes that call a validating function on a link's passwordHash
ValidateRoutes(validateFn) ==
  CASE validateFn = "validatePassword" -> {RDownloadLink, RShared}
    [] validateFn = "validateFilePassword" -> {RDownloadShared}
    [] OTHER -> {}

\* Either a password q about to be hashed and a password p to verify against
\* the hash, or a malformed stored hash and a password p to verify against it.
InitPassword ==
  /\ files = [f \in FileIds |-> DefaultFile]
  /\ links = [k \in LinkIds |-> DefaultLink]
  /\ disk = FileIds
  /\ downloadLogs = EmptyBag
  /\ now = 0
  /\ req = [r \in Slots |-> IdleRequest]
  /\ started = 0
  /\ faults = 0
  /\ attempts = [rt \in DownloadRoutes |-> 0]
  /\ served = [rt \in DownloadRoutes |-> 0]
  /\ incs = [rt \in DownloadRoutes |-> 0]
  /\ AppIdle
  /\ \/ \E fns \in FnPairs, p \in PasswordInputs, q \in PasswordInputs, salt \in Salts :
          pw = [PwIdle EXCEPT !.stage = "chosen", !.hashFn = fns[1],
                              !.validateFn = fns[2], !.p = p, !.q = q, !.salt = salt]
     \/ \E fn \in ValidateFns, p \in PasswordInputs, hash \in MalformedHashes,
           strict \in BOOLEAN :
          pw = [PwIdle EXCEPT !.stage = "hashed", !.hashFn = "stored",
                              !.validateFn = fn, !.p = p, !.hash = hash,
                              !.strict = strict]

\* the hashing function is applied to q
HashStep ==
  /\ pw.stage = "chosen"
  /\ pw' = [pw EXCEPT !.stage = "hashed",
                      !.hash = CASE pw.hashFn = "hashPassword" -> hashPassword(pw.q, pw.salt)
                                 [] pw.hashFn = "hashFilePassword" ->
                                      hashFilePassword(pw.q, pw.salt)
                                 [] OTHER -> memHashPassword(pw.q)]
  /\ UNCHANGED <<appVars, files, links, downloadLogs, disk, now, req, started, faults, attempts,
                 served, incs>>

\* the validating function is applied to p and the hash
VerifyStep ==
  /\ pw.stage = "hashed"
  /\ pw' = [pw EXCEPT !.stage = "verified",
                      !.result = CASE pw.validateFn = "validatePassword" ->
                                        validatePassword(pw.p, pw.hash)
                                   [] pw.validateFn = "validateFilePassword" ->
                                        validateFilePassword(pw.p, pw.hash)
                                   [] OTHER -> memValidatePassword(pw.p, pw.hash)]
  /\ UNCHANGED <<appVars, files, links, downloadLogs, disk, now, req, started, faults, attempts,
                 served, incs>>

\* a route that calls the validating function checks a request with password
\* p for a link whose passwordHash is the hash
DecideStep(route) ==
  /\ pw.stage = "verified"
  /\ route \in ValidateRoutes(pw.validateFn)
  /\ pw' = [pw EXCEPT !.stage = "decided", !.route = route,
                      !.decision = RouteCheck(route,
                                     [DefaultLink EXCEPT !.passwordHash = pw.hash],
                                     pw.p, now)]
  /\ UNCHANGED <<appVars, files, links, downloadLogs, disk, now, req, started, faults, attempts,
                 served, incs>>

NextPassword ==
  \/ HashStep
  \/ VerifyStep
  \/ \E route \in TokenRoutes : DecideStep(route)

\* the storage classes' password functions on bounded inputs
SpecPassword == InitPassword /\ [][NextPassword]_vars

\* a download request that starts when no other request is in flight
StartAlone(r, route) ==
  /\ \A q \in Slots : Free(q)
  /\ StartDownload(r, route)

NextSeq ==
  \/ \E r \in Slots, route \in DownloadRoutes : StartAlone(r, route)
  \/ \E r \in Slots : Lookup(r)
  \/ \E r \in Slots : GetFile(r)
  \/ \E r \in Slots : Write(r)

\* download requests issued one after another, storage never failing
SpecSeq == InitRace /\ [][NextSeq]_vars

NextRace ==
  \/ \E r \in Slots, route \in DownloadRoutes : StartDownload(r, route)
  \/ \E r \in Slots : Lookup(r)
  \/ \E r \in Slots : GetFile(r)
  \/ \E r \in Slots : Write(r)

\* download requests racing on the download counters, storage never failing
SpecRace == InitRace /\ [][NextRace]_vars

NextRevoke ==
  \/ NextRace
  \/ \E id \in LinkIds : Deactivate(id)

\* download requests racing while the link is deactivated
SpecRevoke == InitRace /\ [][NextRevoke]_vars

\* the first request of a behaviour
StartOne(r, route, param, password) ==
  /\ started = 0
  /\ Arrive(r, route, param, password)

\* time passes before the request arrives
TickIdle ==
  /\ started = 0
  /\ Tick

NextOne ==
  \/ \E r \in Slots, route \in Routes, param \in CodeParams \cup TokenParams,
        password \in {NoPassword} \cup Passwords :
       StartOne(r, route, param, password)
  \/ \E r \in Slots : Lookup(r)
  \/ \E r \in Slots : GetFile(r)
  \/ \E r \in Slots : Write(r)
  \/ TickIdle

\* one request, run to its response with nothing else happening, against every
\* setting of the file or of the link
SpecOne == Init /\ [][NextOne]_vars

\* A handler of a shared-link download route run from its first line to its
\* response on the link row as stored, with no other request and no storage
\* failure: whether the file was sent, and the counters and the number of
\* download logs it leaves (the file row and the disk are read as they are).
RunAlone(route, link, password, clock) ==
  LET file == IF link = NoLink THEN NoFile ELSE getFile(link.fileId)
      ops == WriteOps(route)
      Has(op) == \E i \in 1..Len(ops) : ops[i] = op
      passes == /\ RouteCheck(route, link, password, clock) = PASS
                /\ CheckLinkedFile(route, file) = PASS
      Add(op) == IF passes /\ Has(op) THEN 1 ELSE 0
  IN  [granted |-> passes /\ SendFile(file.id) = ServedFile,
       linkCount |-> IF link = NoLink THEN 0 ELSE link.downloadCount + Add("link"),
       fileCount |-> IF file = NoFile THEN 0 ELSE file.downloadCount + Add("file"),
       logs |-> Add("log")]

\* ------------------------------------------------------- authenticated routes

\* POST /api/files/upload
RUpload == "files/upload"

CallFree(c) == calls[c].pc \in {"idle", "done"}

\* the handler answers
Answer(c, resp) == calls' = [calls EXCEPT ![c].pc = "done", ![c].resp = resp]

\* res.json of the row or rows the handler read or created
Json == [status |-> 200, error |-> "", body |-> "json"]

getProfile(userId) == IF userId \in DOMAIN profiles THEN profiles[userId] ELSE [id |-> "none"]

\* db.update(profiles).set({dailyUploadCount}).where(id): the value is stored as given
updateProfile(userId, dailyUploadCount) ==
  IF userId \in DOMAIN profiles
  THEN [profiles EXCEPT ![userId].dailyUploadCount = dailyUploadCount]
  ELSE profiles

\* ids the database gives to uploaded files, in the order of their inserts
UploadIds == <<"f2", "f3", "f4", "f5">>

\* file rows created by POST /api/files/upload
Uploaded == DOMAIN files \ FileIds

\* db.insert(files).values(...): the row of a file uploaded with the form's
\* defaults (no share code, not public, no limit, no expiry)
createFile(userId) ==
  LET id == UploadIds[Cardinality(Uploaded) + 1]
  IN  [f \in DOMAIN files \cup {id} |->
         IF f = id
         THEN [id |-> id, userId |-> userId, shareCode |-> "", isPublic |-> FALSE,
               isLocked |-> FALSE, downloadLimit |-> NULL, downloadCount |-> 0,
               expiresAt |-> NULL]
         ELSE files[f]]

\* an upload request by an authenticated user arrives with a file
UploadStart(c, user) ==
  /\ CallFree(c)
  /\ \A q \in CallSlots : CallFree(q) => c <= q
  /\ Cardinality(Uploaded) + Cardinality({q \in CallSlots : ~CallFree(q)}) < MaxUploads
  /\ calls' = [calls EXCEPT ![c] =
       [IdleCall EXCEPT !.pc = "getProfile", !.seq = 1, !.route = RUpload,
                        !.user = user]]
  /\ UNCHANGED <<files, links, downloadLogs, disk, now, req, started, faults, attempts,
                 served, incs, pw, users, profiles, page, mem>>

\* storage.getProfile returns the row as stored and the handler checks the
\* daily limit on it
UploadGetProfile(c) ==
  /\ calls[c].pc = "getProfile"
  /\ calls[c].route = RUpload
  /\ LET profile == getProfile(calls[c].user)
     IN  IF profile.id = "none" THEN Answer(c, Deny(404, "Profile not found"))
         ELSE IF profile.dailyUploadCount >= profile.dailyUploadLimit
           THEN Answer(c, Deny(429, "Daily upload limit exceeded"))
         ELSE calls' = [calls EXCEPT ![c].pc = "createFile", ![c].profile = profile]
  /\ UNCHANGED <<files, links, downloadLogs, disk, now, req, started, faults, attempts,
                 served, incs, pw, users, profiles, page, mem>>

\* storage.createFile inserts the row of the file whose bytes the upload
\* middleware has stored
UploadCreateFile(c) ==
  /\ calls[c].pc = "createFile"
  /\ files' = createFile(calls[c].user)
  /\ disk' = disk \cup {UploadIds[Cardinality(Uploaded) + 1]}
  /\ calls' = [calls EXCEPT ![c].pc = "updateProfile",
                            ![c].fileId = UploadIds[Cardinality(Uploaded) + 1]]
  /\ UNCHANGED <<links, downloadLogs, now, req, started, faults, attempts,
                 served, incs, pw, users, profiles, page, mem>>

\* storage.updateProfile writes the count the handler read plus one, and the
\* handler answers with the file row
UploadUpdateProfile(c) ==
  /\ calls[c].pc = "updateProfile"
  /\ profiles' = updateProfile(calls[c].user, calls[c].profile.dailyUploadCount + 1)
  /\ Answer(c, Json)
  /\ UNCHANGED <<files, links, downloadLogs, disk, now, req, started, faults, attempts,
                 served, incs, pw, users, page, mem>>

\* The owner's profile has no upload counted and any daily limit.
InitUpload ==
  /\ files = [f \in FileIds |-> DefaultFile]
  /\ links = [k \in LinkIds |-> DefaultLink]
  /\ disk = FileIds
  /\ downloadLogs = EmptyBag
  /\ now = 0
  /\ req = [r \in Slots |-> IdleRequest]
  /\ started = 0
  /\ faults = 0
  /\ attempts = [rt \in DownloadRoutes |-> 0]
  /\ served = [rt \in DownloadRoutes |-> 0]
  /\ incs = [rt \in DownloadRoutes |-> 0]
  /\ pw = PwIdle
  /\ users = [u \in {"u1"} |-> [id |-> "u1", email |-> "a@x"]]
  /\ \E limit \in 0..MaxUploadLimit :
       profiles = [u \in {"u1"} |->
                     [id |-> "u1", dailyUploadCount |-> 0, dailyUploadLimit |-> limit]]
  /\ calls = [c \in CallSlots |-> IdleCall]
  /\ page = PageIdle
  /\ mem = MemEmpty

NextUpload ==
  \/ \E c \in CallSlots, user \in UserIds : UploadStart(c, user)
  \/ \E c \in CallSlots : UploadGetProfile(c)
  \/ \E c \in CallSlots : UploadCreateFile(c)
  \/ \E c \in CallSlots : UploadUpdateProfile(c)

\* upload requests racing on the daily upload counter, storage never failing
SpecUpload == InitUpload /\ [][NextUpload]_vars

\* GET /api/files/:id
RFileGet == "GET files/:id"
\* DELETE /api/files/:id
RFileDelete == "DELETE files/:id"
\* POST /api/share/email
RShareEmail == "share/email"
\* POST /api/shared-links
RCreateLink == "POST shared-links"
\* GET /api/analytics/downloads/:fileId
RAnalytics == "analytics/downloads"

\* the authenticated routes that name a file
FileRoutes == {RFileGet, RFileDelete, RShareEmail, RCreateLink, RAnalytics}

\* file ids a request can name: the stored one and one that matches nothing
FileParams == FileIds \cup {"nofile"}

\* a test that only looks for the row
OwnsFileAnyUser(file, user) == file # NoFile

\* the negation of `!file || file.userId !== req.user.id`
OwnsFile(file, user) == file # NoFile /\ file.userId = user

\* calls started so far
CallsStarted ==
  LET n[k \in 0..NumCalls] ==
        IF k = 0 THEN 0 ELSE IF calls[k].seq > n[k - 1] THEN calls[k].seq ELSE n[k - 1]
  IN  n[NumCalls]

\* ids and tokens the database and generateShareToken give to the links
\* created by the first, second, ... request: none is given twice
NewLinkIds == <<"k2", "k3", "k4", "k5">>
NewTokens == <<"token2", "token3", "token4", "token5">>

\* db.insert(sharedLinks).values(...) of a link with the given password hash
\* and no expiry or limit
createSharedLink(id, fileId, shareToken, passwordHash) ==
  [k \in DOMAIN links \cup {id} |->
     IF k = id
     THEN [id |-> id, fileId |-> fileId, shareToken |-> shareToken,
           passwordHash |-> passwordHash, expiresAt |-> NULL, downloadLimit |-> NULL,
           downloadCount |-> 0, isActive |-> TRUE]
     ELSE links[k]]

\* a delete that removes no row
deleteSharedLinkNone(id) == links

\* db.delete(sharedLinks).where(id)
deleteSharedLink(id) == [k \in DOMAIN links \ {id} |-> links[k]]

\* a request by an authenticated user arrives on a route that names a file
CallStart(c, route, user, fileId, password) ==
  /\ CallFree(c)
  /\ \A q \in CallSlots : CallFree(q) => c <= q
  /\ CallsStarted < MaxCalls
  /\ route \in FileRoutes
  /\ password # NoPassword => route \in {RShareEmail, RCreateLink}
  /\ calls' = [calls EXCEPT ![c] =
       [IdleCall EXCEPT !.pc = "getFile", !.seq = CallsStarted + 1, !.route = route,
                        !.user = user, !.fileId = fileId, !.password = password]]
  /\ UNCHANGED <<files, links, downloadLogs, disk, now, req, started, faults, attempts,
                 served, incs, pw, users, profiles, page, mem>>

\* storage.getFile returns the row as stored and the handler tests that the
\* caller owns it; DELETE then unlinks the bytes (a failed unlink is ignored)
CallGetFile(c) ==
  /\ calls[c].pc = "getFile"
  /\ LET route == calls[c].route
         file == getFile(calls[c].fileId)
     IN  /\ IF ~OwnsFile(file, calls[c].user) THEN Answer(c, Deny(404, "File not found"))
            ELSE IF route = RFileGet THEN Answer(c, Json)
            ELSE calls' = [calls EXCEPT ![c].pc =
                   CASE route = RFileDelete -> "deleteFile"
                     [] route = RShareEmail -> "getProfile"
                     [] route = RCreateLink -> "createLink"
                     [] route = RAnalytics -> "getLogs"]
         /\ disk' = IF OwnsFile(file, calls[c].user) /\ route = RFileDelete
                    THEN disk \ {file.id}
                    ELSE disk
  /\ UNCHANGED <<files, links, downloadLogs, now, req, started, faults, attempts,
                 served, incs, pw, users, profiles, page, mem>>

\* storage.deleteFile of DELETE /api/files/:id
CallDeleteFile(c) ==
  /\ calls[c].pc = "deleteFile"
  /\ files' = deleteFile(calls[c].fileId)
  /\ links' = cascadeSharedLinks(calls[c].fileId)
  /\ downloadLogs' = cascadeDownloadLogs(calls[c].fileId)
  /\ Answer(c, Json)
  /\ UNCHANGED <<disk, now, req, started, faults, attempts,
                 served, incs, pw, users, profiles, page, mem>>

\* storage.getProfile of POST /api/share/email
CallGetProfile(c) ==
  /\ calls[c].pc = "getProfile"
  /\ calls[c].route = RShareEmail
  /\ IF getProfile(calls[c].user).id = "none"
     THEN Answer(c, Deny(404, "User profile not found"))
     ELSE calls' = [calls EXCEPT ![c].pc = "createLink"]
  /\ UNCHANGED <<files, links, downloadLogs, disk, now, req, started, faults, attempts,
                 served, incs, pw, users, profiles, page, mem>>

\* storage.createSharedLink of POST /api/share/email and POST
\* /api/shared-links, with a fresh token and the hash of the password if one
\* was sent.  The insert for a file row that is gone is rejected.
CallCreateLink(c) ==
  /\ calls[c].pc = "createLink"
  /\ LET route == calls[c].route
         id == NewLinkIds[calls[c].seq]
         token == NewTokens[calls[c].seq]
         hash == IF calls[c].password = NoPassword THEN NoHash
                 ELSE IF route = RShareEmail
                   THEN hashFilePassword(calls[c].password, "salt1")
                 ELSE hashPassword(calls[c].password, "salt1")
     IN  IF ForeignKeyViolation(calls[c].fileId)
         THEN /\ Answer(c, IF route = RShareEmail THEN ServerError
                           ELSE [ServerError EXCEPT !.status = 400])
              /\ UNCHANGED links
         ELSE /\ links' = createSharedLink(id, calls[c].fileId, token, hash)
              /\ calls' = [calls EXCEPT
                   ![c].pc = IF route = RShareEmail THEN "sendEmail" ELSE "done",
                   ![c].resp = IF route = RShareEmail THEN NoResponse ELSE Json,
                   ![c].row = id, ![c].token = token, ![c].before = DOMAIN links]
  /\ UNCHANGED <<files, downloadLogs, disk, now, req, started, faults, attempts,
                 served, incs, pw, users, profiles, page, mem>>

\* the email could not be sent
EmailFailed ==
  [status |-> 500, error |-> "Failed to send email. Please check email configuration.",
   body |-> "error"]

\* emailService.sendFileShareEmail resolves: true when the mail went out, false
\* when the service is not configured or sendMail threw
CallSendEmail(c, emailSent) ==
  /\ calls[c].pc = "sendEmail"
  /\ IF emailSent THEN Answer(c, Json)
     ELSE calls' = [calls EXCEPT ![c].pc = "deleteLink"]
  /\ UNCHANGED <<files, links, downloadLogs, disk, now, req, started, faults, attempts,
                 served, incs, pw, users, profiles, page, mem>>

\* storage.deleteSharedLink of the link the request created, then the 500
CallDeleteLink(c) ==
  /\ calls[c].pc = "deleteLink"
  /\ links' = deleteSharedLink(calls[c].row)
  /\ Answer(c, EmailFailed)
  /\ UNCHANGED <<files, downloadLogs, disk, now, req, started, faults, attempts,
                 served, incs, pw, users, profiles, page, mem>>

\* storage.getFileDownloadLogs of GET /api/analytics/downloads/:fileId
CallGetLogs(c) ==
  /\ calls[c].pc = "getLogs"
  /\ Answer(c, Json)
  /\ UNCHANGED <<files, links, downloadLogs, disk, now, req, started, faults, attempts,
                 served, incs, pw, users, profiles, page, mem>>

\* The owner's file with its link and one logged download; a second user is
\* registered.
InitOwner ==
  /\ files = [f \in FileIds |-> DefaultFile]
  /\ links = [k \in LinkIds |-> DefaultLink]
  /\ disk = FileIds
  /\ downloadLogs = SetToBag({[fileId |-> "f1", sharedLinkId |-> "none",
                               downloadMethod |-> "code"]})
  /\ now = 0
  /\ req = [r \in Slots |-> IdleRequest]
  /\ started = 0
  /\ faults = 0
  /\ attempts = [rt \in DownloadRoutes |-> 0]
  /\ served = [rt \in DownloadRoutes |-> 0]
  /\ incs = [rt \in DownloadRoutes |-> 0]
  /\ pw = PwIdle
  /\ users = [u \in UserIds |-> [id |-> u, email |-> IF u = "u1" THEN "a@x" ELSE "b@x"]]
  /\ profiles = [u \in UserIds |->
                   [id |-> u, dailyUploadCount |-> 0,
                    dailyUploadLimit |-> FreeDailyUploadLimit]]
  /\ calls = [c \in CallSlots |-> IdleCall]
  /\ page = PageIdle
  /\ mem = MemEmpty

NextOwner ==
  \/ \E c \in CallSlots, route \in FileRoutes, user \in UserIds, fileId \in FileParams,
        password \in {NoPassword, LinkPassword} :
       CallStart(c, route, user, fileId, password)
  \/ \E c \in CallSlots : CallGetFile(c)
  \/ \E c \in CallSlots : CallDeleteFile(c)
  \/ \E c \in CallSlots : CallGetProfile(c)
  \/ \E c \in CallSlots : CallCreateLink(c)
  \/ \E c \in CallSlots, emailSent \in BOOLEAN : CallSendEmail(c, emailSent)
  \/ \E c \in CallSlots : CallDeleteLink(c)
  \/ \E c \in CallSlots : CallGetLogs(c)

\* requests of the owner and of another user on the routes that name a file,
\* storage never failing
SpecOwner == InitOwner /\ [][NextOwner]_vars

\* POST /api/auth/register
RRegister == "auth/register"

\* ids the database gives to registered users, in the order of their inserts
NewUserIds == <<"u2", "u3", "u4", "u5", "u6">>

getUserByEmail(email) ==
  IF \E u \in DOMAIN users : users[u].email = email
  THEN users[CHOOSE u \in DOMAIN users : users[u].email = email]
  ELSE [id |-> "none"]

\* users.email is unique: an insert of an email that is stored is rejected
UniqueViolation(email) == \E u \in DOMAIN users : users[u].email = email

\* db.insert(users).values({email, password})
createUser(id, email) ==
  [u \in DOMAIN users \cup {id} |-> IF u = id THEN [id |-> id, email |-> email] ELSE users[u]]

\* db.insert(profiles).values(...) with the values POST /api/auth/register gives
createProfile(id) ==
  [u \in DOMAIN profiles \cup {id} |->
     IF u = id
     THEN [id |-> id, dailyUploadCount |-> 0, dailyUploadLimit |-> FreeDailyUploadLimit]
     ELSE profiles[u]]

\* the catch block of POST /api/auth/register
RegisterError == [status |-> 400, error |-> "error.message", body |-> "error"]

\* a registration request arrives
RegisterStart(c, email) ==
  /\ CallFree(c)
  /\ \A q \in CallSlots : CallFree(q) => c <= q
  /\ CallsStarted < MaxCalls
  /\ calls' = [calls EXCEPT ![c] =
       [IdleCall EXCEPT !.pc = "getUserByEmail", !.seq = CallsStarted + 1,
                        !.route = RRegister, !.email = email]]
  /\ UNCHANGED <<files, links, downloadLogs, disk, now, req, started, faults, attempts,
                 served, incs, pw, users, profiles, page, mem>>

\* storage.getUserByEmail returns the row as stored, if any; the handler
\* then awaits bcrypt.hash
RegisterGetUser(c) ==
  /\ calls[c].pc = "getUserByEmail"
  /\ IF getUserByEmail(calls[c].email).id # "none"
     THEN Answer(c, Deny(400, "User already exists"))
     ELSE calls' = [calls EXCEPT ![c].pc = "createUser"]
  /\ UNCHANGED <<files, links, downloadLogs, disk, now, req, started, faults, attempts,
                 served, incs, pw, users, profiles, page, mem>>

\* storage.createUser inserts the user row, unless the email has been
\* inserted meanwhile
RegisterCreateUser(c) ==
  /\ calls[c].pc = "createUser"
  /\ IF UniqueViolation(calls[c].email)
     THEN Answer(c, RegisterError) /\ UNCHANGED users
     ELSE /\ users' = createUser(NewUserIds[Cardinality(DOMAIN users)], calls[c].email)
          /\ calls' = [calls EXCEPT ![c].pc = "createProfile",
                                    ![c].user = NewUserIds[Cardinality(DOMAIN users)]]
  /\ UNCHANGED <<files, links, downloadLogs, disk, now, req, started, faults, attempts,
                 served, incs, pw, profiles, page, mem>>

\* storage.createProfile inserts the profile row with the user's id and the
\* handler answers with the user, the profile and a token
RegisterCreateProfile(c) ==
  /\ calls[c].pc = "createProfile"
  /\ profiles' = createProfile(calls[c].user)
  /\ Answer(c, Json)
  /\ UNCHANGED <<files, links, downloadLogs, disk, now, req, started, faults, attempts,
                 served, incs, pw, users, page, mem>>

\* the storage write the handler awaits throws: the catch block answers 400
RegisterWriteFail(c) ==
  /\ calls[c].pc \in {"createUser", "createProfile"}
  /\ calls[c].route = RRegister
  /\ faults < MaxFaults
  /\ faults' = faults + 1
  /\ Answer(c, RegisterError)
  /\ UNCHANGED <<files, links, downloadLogs, disk, now, req, started, attempts,
                 served, incs, pw, users, profiles, page, mem>>

\* one registered user (with a file and a link), no request made yet
InitRegister ==
  /\ files = [f \in FileIds |-> DefaultFile]
  /\ links = [k \in LinkIds |-> DefaultLink]
  /\ disk = FileIds
  /\ InitRequests

NextRegister ==
  \/ \E c \in CallSlots, email \in Emails : RegisterStart(c, email)
  \/ \E c \in CallSlots : RegisterGetUser(c)
  \/ \E c \in CallSlots : RegisterCreateUser(c)
  \/ \E c \in CallSlots : RegisterCreateProfile(c)
  \/ \E c \in CallSlots : RegisterWriteFail(c)

\* registrations racing, a storage write failing at most MaxFaults times; one
\* user is registered at the start
SpecRegister == InitRegister /\ [][NextRegister]_vars

\* ------------------------------------------------------------ the receive page

\* what a fetch of the page leads to: a 200, a 401 with requiresPassword, any
\* other error response, or a rejected promise
FetchOutcomes == {"ok", "password required", "denied", "network error"}

PageCallFree(call) == call.pc \in {"idle", "ended"}

\* the share-route state, which the page does not touch
serverVars ==
  <<files, links, downloadLogs, disk, now, req, started, faults, attempts, served, incs,
    pw, users, profiles, calls, mem>>

\* fetchFileInfo up to its first await: setLoading(true), setError(''), fetch
BeginFetchInfo(i) ==
  [page EXCEPT !.loading = TRUE, !.error = "", !.made = @ + 1,
               !.fetch[i] = [pc |-> "fetch", outcome |-> "none"]]

\* the effect of the first render calls fetchFileInfo(params.token)
Mount(i) ==
  /\ ~page.mounted
  /\ i = 1
  /\ page' = [BeginFetchInfo(i) EXCEPT !.mounted = TRUE]
  /\ UNCHANGED serverVars

\* the password form is submitted (it is rendered when the page is not loading)
PasswordSubmit(i) ==
  /\ page.mounted
  /\ ~page.loading
  /\ page.made < MaxPageCalls
  /\ PageCallFree(page.fetch[i])
  /\ \A j \in FetchSlots : PageCallFree(page.fetch[j]) => i <= j
  /\ page' = BeginFetchInfo(i)
  /\ UNCHANGED serverVars

\* a fetchFileInfo whose error branch returns past a setLoading(false) that
\* follows the try block instead of being in a finally
FetchInfoSettleNoFinally(i, outcome) ==
  /\ page.fetch[i].pc \in {"fetch", "json"}
  /\ IF page.fetch[i].pc = "fetch"
     THEN outcome \in FetchOutcomes
     ELSE outcome \in {page.fetch[i].outcome, "network error"}
  /\ page' =
       IF page.fetch[i].pc = "fetch" /\ outcome # "network error"
       THEN [page EXCEPT !.fetch[i] = [pc |-> "json", outcome |-> outcome]]
       ELSE LET end == [page EXCEPT !.fetch[i] = [pc |-> "ended", outcome |-> outcome]]
            IN  CASE outcome = "network error" ->
                       [end EXCEPT !.error = "Failed to load file information",
                                   !.loading = FALSE]
                  [] outcome = "password required" ->
                       [end EXCEPT !.requiresPassword = TRUE, !.error = ""]
                  [] outcome = "denied" ->
                       [end EXCEPT !.error = "data.error"]
                  [] outcome = "ok" ->
                       [end EXCEPT !.hasInfo = TRUE, !.requiresPassword = FALSE,
                                   !.error = "", !.loading = FALSE]
  /\ UNCHANGED serverVars

\* A promise fetchFileInfo awaits settles.  The fetch resolves with a
\* response or rejects; response.json() resolves or rejects.  A rejection
\* runs the catch block, a response that is not ok sets requiresPassword or
\* the error and returns, an ok response stores the file information; in
\* every case the finally block runs setLoading(false) and the call ends.
FetchInfoSettle(i, outcome) ==
  /\ page.fetch[i].pc \in {"fetch", "json"}
  /\ IF page.fetch[i].pc = "fetch"
     THEN outcome \in FetchOutcomes
     ELSE outcome \in {page.fetch[i].outcome, "network error"}
  /\ page' =
       IF page.fetch[i].pc = "fetch" /\ outcome # "network error"
       THEN [page EXCEPT !.fetch[i] = [pc |-> "json", outcome |-> outcome]]
       ELSE LET end == [page EXCEPT !.fetch[i] = [pc |-> "ended", outcome |-> outcome],
                                    !.loading = FALSE]
            IN  CASE outcome = "network error" ->
                       [end EXCEPT !.error = "Failed to load file information"]
                  [] outcome = "password required" ->
                       [end EXCEPT !.requiresPassword = TRUE, !.error = ""]
                  [] outcome = "denied" ->
                       [end EXCEPT !.error = "data.error"]
                  [] outcome = "ok" ->
                       [end EXCEPT !.hasInfo = TRUE, !.requiresPassword = FALSE,
                                   !.error = ""]
  /\ UNCHANGED serverVars

\* the download button is clicked (it is rendered when the page is not
\* loading and has the file information, and is disabled while downloading):
\* handleDownload up to its first await
DownloadClick ==
  /\ page.mounted
  /\ ~page.loading
  /\ page.hasInfo
  /\ ~page.downloading
  /\ page.made < MaxPageCalls
  /\ page' = [page EXCEPT !.downloading = TRUE, !.error = "", !.made = @ + 1,
                          !.download = [pc |-> "fetch", outcome |-> "none"]]
  /\ UNCHANGED serverVars

\* A promise handleDownload awaits settles: the fetch, response.json() of a
\* response that is not ok, or response.blob() of an ok one.  After the
\* blob the handler calls fetchFileInfo, which runs up to its first await;
\* in every case the finally block runs setDownloading(false) and the call
\* ends.
DownloadSettle(outcome, i) ==
  /\ page.download.pc \in {"fetch", "body"}
  /\ IF page.download.pc = "fetch"
     THEN outcome \in FetchOutcomes
     ELSE outcome \in {page.download.outcome, "network error"}
  /\ IF page.download.pc = "body" /\ outcome = "ok"
     THEN /\ PageCallFree(page.fetch[i])
          /\ \A j \in FetchSlots : PageCallFree(page.fetch[j]) => i <= j
     ELSE i = 1
  /\ page' =
       IF page.download.pc = "fetch" /\ outcome # "network error"
       THEN [page EXCEPT !.download = [pc |-> "body", outcome |-> outcome]]
       ELSE LET end == [page EXCEPT !.download = [pc |-> "ended", outcome |-> outcome],
                                    !.downloading = FALSE]
            IN  CASE outcome = "network error" ->
                       [end EXCEPT !.error = "Download failed"]
                  [] outcome = "password required" ->
                       [end EXCEPT !.requiresPassword = TRUE,
                                   !.error = "Password required"]
                  [] outcome = "denied" ->
                       [end EXCEPT !.error = "data.error"]
                  [] outcome = "ok" ->
                       [end EXCEPT !.loading = TRUE, !.error = "",
                                   !.fetch[i] = [pc |-> "fetch", outcome |-> "none"]]
  /\ UNCHANGED serverVars

\* the page is opened on /receive/:token
InitPage ==
  /\ files = [f \in FileIds |-> DefaultFile]
  /\ links = [k \in LinkIds |-> DefaultLink]
  /\ disk = FileIds
  /\ InitRequests

\* the steps in which the browser and the event loop make progress
PageProgress ==
  \/ \E i \in FetchSlots : Mount(i)
  \/ \E i \in FetchSlots, outcome \in FetchOutcomes : FetchInfoSettle(i, outcome)
  \/ \E i \in FetchSlots, outcome \in FetchOutcomes : DownloadSettle(outcome, i)

NextPage ==
  \/ \E i \in FetchSlots : Mount(i)
  \/ \E i \in FetchSlots : PasswordSubmit(i)
  \/ \E i \in FetchSlots, outcome \in FetchOutcomes : FetchInfoSettle(i, outcome)
  \/ DownloadClick
  \/ \E i \in FetchSlots, outcome \in FetchOutcomes : DownloadSettle(outcome, i)

\* The receive page with its user.  The effect runs after the first render
\* and every promise the page awaits settles, so these steps are not put off
\* for ever; the user's clicks may never come.
SpecPage == InitPage /\ [][NextPage]_vars /\ WF_vars(PageProgress)

\* -------------------------------------------------------------- MemStorage

\* Map.set, Map.delete
MapSet(map, key, value) ==
  [k \in DOMAIN map \cup {key} |-> IF k = key THEN value ELSE map[k]]
MapDelete(map, key) == [k \in DOMAIN map \ {key} |-> map[k]]

\* ids crypto.randomUUID gives out, in order
MemIds == <<"m1", "m2", "m3", "m4">>
\* share codes generateShareCode can return (nothing keeps it from returning
\* one twice); "" is null
MemShareCodes == {"AAAAAAAA", "BBBBBBBB"}
\* share tokens of the links to create or to update
MemShareTokens == {"tokenA", "tokenB"}
\* a field that an update object does not carry
Absent == "absent"

\* MemStorage.getFileByShareCode
memGetFileByShareCode(m, shareCode) ==
  IF shareCode \notin DOMAIN m.shareCodeToFileId THEN NoFile
  ELSE IF m.shareCodeToFileId[shareCode] \notin DOMAIN m.files THEN NoFile
  ELSE m.files[m.shareCodeToFileId[shareCode]]

\* MemStorage.getSharedLink
memGetSharedLink(m, token) ==
  IF token \notin DOMAIN m.shareTokenToLinkId THEN NoLink
  ELSE IF m.shareTokenToLinkId[token] \notin DOMAIN m.sharedLinks THEN NoLink
  ELSE m.sharedLinks[m.shareTokenToLinkId[token]]

\* MemStorage.createFile
memCreateFile(m, shareCode) ==
  LET id == MemIds[m.issued + 1]
      file == [id |-> id, shareCode |-> shareCode, downloadCount |-> 0]
  IN  [m EXCEPT !.issued = @ + 1,
                !.files = MapSet(@, id, file),
                !.shareCodeToFileId = IF shareCode # "" THEN MapSet(@, shareCode, id) ELSE @]

\* MemStorage.updateFile with an update object that carries a shareCode
\* (perhaps null) or does not (and sets the download count)
memUpdateFile(m, id, shareCode) ==
  IF id \notin DOMAIN m.files THEN m
  ELSE LET existing == m.files[id]
           updated == IF shareCode = Absent THEN [existing EXCEPT !.downloadCount = 1]
                      ELSE [existing EXCEPT !.shareCode = shareCode]
           dropped == IF existing.shareCode # "" /\ shareCode # existing.shareCode
                      THEN MapDelete(m.shareCodeToFileId, existing.shareCode)
                      ELSE m.shareCodeToFileId
       IN  [m EXCEPT !.files = MapSet(@, id, updated),
                     !.shareCodeToFileId =
                        IF updated.shareCode # "" THEN MapSet(dropped, updated.shareCode, id)
                        ELSE dropped]

\* MemStorage.deleteFile
memDeleteFile(m, id) ==
  IF id \notin DOMAIN m.files THEN m
  ELSE LET file == m.files[id]
           linksToDelete == {k \in DOMAIN m.sharedLinks : m.sharedLinks[k].fileId = id}
           tokens == {m.sharedLinks[k].shareToken : k \in linksToDelete}
       IN  [m EXCEPT
             !.shareCodeToFileId = IF file.shareCode # "" THEN MapDelete(@, file.shareCode)
                                   ELSE @,
             !.sharedLinks = [k \in DOMAIN @ \ linksToDelete |-> @[k]],
             !.shareTokenToLinkId = [t \in DOMAIN @ \ tokens |-> @[t]],
             !.files = MapDelete(@, id)]

\* MemStorage.createSharedLink
memCreateSharedLink(m, fileId, shareToken) ==
  LET id == MemIds[m.issued + 1]
      link == [id |-> id, fileId |-> fileId, shareToken |-> shareToken,
               downloadCount |-> 0]
  IN  [m EXCEPT !.issued = @ + 1,
                !.sharedLinks = MapSet(@, id, link),
                !.shareTokenToLinkId = MapSet(@, shareToken, id)]

\* MemStorage.updateSharedLink with an update object that carries a
\* shareToken or does not (and sets the download count)
memUpdateSharedLink(m, id, shareToken) ==
  IF id \notin DOMAIN m.sharedLinks THEN m
  ELSE LET existing == m.sharedLinks[id]
           updated == IF shareToken = Absent THEN [existing EXCEPT !.downloadCount = 1]
                      ELSE [existing EXCEPT !.shareToken = shareToken]
       IN  [m EXCEPT
             !.shareTokenToLinkId =
                IF shareToken # Absent /\ shareToken # "" /\ shareToken # existing.shareToken
                THEN MapSet(MapDelete(@, existing.shareToken), shareToken, id)
                ELSE @,
             !.sharedLinks = MapSet(@, id, updated)]

\* MemStorage.deleteSharedLink
memDeleteSharedLink(m, id) ==
  IF id \notin DOMAIN m.sharedLinks THEN m
  ELSE [m EXCEPT !.shareTokenToLinkId = MapDelete(@, m.sharedLinks[id].shareToken),
                 !.sharedLinks = MapDelete(@, id)]

\* calls of the MemStorage operations, each running to completion (no
\* operation awaits anything)
MemCreateFile(shareCode) ==
  /\ mem.issued < MaxMemRows
  /\ mem' = memCreateFile(mem, shareCode)
  /\ UNCHANGED <<files, links, downloadLogs, disk, now, req, started, faults, attempts,
                 served, incs, pw, users, profiles, calls, page>>

MemUpdateFile(id, shareCode) ==
  /\ id \in DOMAIN mem.files
  /\ mem' = memUpdateFile(mem, id, shareCode)
  /\ UNCHANGED <<files, links, downloadLogs, disk, now, req, started, faults, attempts,
                 served, incs, pw, users, profiles, calls, page>>

MemDeleteFile(id) ==
  /\ id \in DOMAIN mem.files
  /\ mem' = memDeleteFile(mem, id)
  /\ UNCHANGED <<files, links, downloadLogs, disk, now, req, started, faults, attempts,
                 served, incs, pw, users, profiles, calls, page>>

MemCreateSharedLink(fileId, shareToken) ==
  /\ mem.issued < MaxMemRows
  /\ fileId \in DOMAIN mem.files
  /\ mem' = memCreateSharedLink(mem, fileId, shareToken)
  /\ UNCHANGED <<files, links, downloadLogs, disk, now, req, started, faults, attempts,
                 served, incs, pw, users, profiles, calls, page>>

MemUpdateSharedLink(id, shareToken) ==
  /\ id \in DOMAIN mem.sharedLinks
  /\ mem' = memUpdateSharedLink(mem, id, shareToken)
  /\ UNCHANGED <<files, links, downloadLogs, disk, now, req, started, faults, attempts,
                 served, incs, pw, users, profiles, calls, page>>

MemDeleteSharedLink(id) ==
  /\ id \in DOMAIN mem.sharedLinks
  /\ mem' = memDeleteSharedLink(mem, id)
  /\ UNCHANGED <<files, links, downloadLogs, disk, now, req, started, faults, attempts,
                 served, incs, pw, users, profiles, calls, page>>

\* a MemStorage instance as constructed
InitMem ==
  /\ files = [f \in FileIds |-> DefaultFile]
  /\ links = [k \in LinkIds |-> DefaultLink]
  /\ disk = FileIds
  /\ InitRequests

NextMem ==
  \/ \E shareCode \in MemShareCodes \cup {""} : MemCreateFile(shareCode)
  \/ \E id \in 1..MaxMemRows, shareCode \in MemShareCodes \cup {"", Absent} :
       MemUpdateFile(MemIds[id], shareCode)
  \/ \E id \in 1..MaxMemRows : MemDeleteFile(MemIds[id])
  \/ \E fileId \in 1..MaxMemRows, shareToken \in MemShareTokens :
       MemCreateSharedLink(MemIds[fileId], shareToken)
  \/ \E id \in 1..MaxMemRows, shareToken \in MemShareTokens \cup {Absent} :
       MemUpdateSharedLink(MemIds[id], shareToken)
  \/ \E id \in 1..MaxMemRows : MemDeleteSharedLink(MemIds[id])

\* any sequence of file and shared link operations on a MemStorage instance
SpecMem == InitMem /\ [][NextMem]_vars

\* ------------------------------------------------------------------ claims

Min(a, b) == IF a <= b THEN a ELSE b

\* no request is in flight
Quiescent == \A r \in Slots : Free(r)

Done(r) == req[r].pc = "done"

\* the response is one of the handlers' access denials
Denied(resp) == resp.body = "error" /\ resp.status \in {401, 403, 404, 410, 429}

\* the response is an expiry denial
ExpiredResponse(resp) ==
  /\ resp.status = 410
  /\ resp.error \in {"File has expired", "Share link has expired",
                     "Shared link has expired"}

\* the response carries the file's bytes or its metadata
Discloses(resp) == resp.status = 200

\* download logs written by a route
LogsOf(route) ==
  LET log == [fileId |-> "f1",
              sharedLinkId |-> IF route \in TokenRoutes THEN "k1" ELSE "none",
              downloadMethod |-> DownloadMethod(route)]
  IN  CopiesIn(log, downloadLogs)

\* the supplied password passes verification against the target
Verified(route, param, password) ==
  IF route \in CodeRoutes
  THEN validatePassword(password, CodeAsHash(Target(route, param).shareCode))
  ELSE validatePassword(password, Target(route, param).passwordHash)

\* C1: when N download requests have run, in any interleaving, against one
\* target with downloadLimit L >= 1 and downloadCount 0 at the start, exactly
\* min(N, L) of them were sent the file and downloadCount is min(N, L).
\* Stated for GET /api/public/download on the file and for
\* POST /api/download/shared on the link, each with no other download route
\* used on the target.
C1_LimitAtomicity ==
  Quiescent =>
    /\ LET L == files["f1"].downloadLimit
           N == attempts[RPublicDownload]
       IN  (L # NULL /\ L >= 1 /\ attempts[RCode] = 0 /\ attempts[RDownloadLink] = 0)
           => /\ served[RPublicDownload] = Min(N, L)
              /\ files["f1"].downloadCount = Min(N, L)
    /\ LET L == links["k1"].downloadLimit
           N == attempts[RDownloadShared]
       IN  (L # NULL /\ L >= 1 /\ attempts[RDownloadLink] = 0)
           => /\ served[RDownloadShared] = Min(N, L)
              /\ links["k1"].downloadCount = Min(N, L)

\* C2: in every reachable state every file and every shared link whose
\* downloadLimit is set has 0 <= downloadCount <= downloadLimit.  Stated for
\* limits of at least 1, a limit of 0 being read as "no limit" by every handler.
C2_CountWithinLimit ==
  /\ \A f \in DOMAIN files :
       (files[f].downloadLimit # NULL /\ files[f].downloadLimit >= 1)
       => files[f].downloadCount >= 0 /\ files[f].downloadCount <= files[f].downloadLimit
  /\ \A k \in DOMAIN links :
       (links[k].downloadLimit # NULL /\ links[k].downloadLimit >= 1)
       => links[k].downloadCount >= 0 /\ links[k].downloadCount <= links[k].downloadLimit

\* C3: a request that was answered with the content or the metadata of a
\* password-protected target (a locked file, a link with a password hash)
\* supplied a password that passes verification against that target.
C3_PasswordGate ==
  \A r \in Slots :
    (Done(r) /\ Discloses(req[r].resp) /\ Protected(req[r].route, req[r].param))
    => Verified(req[r].route, req[r].param, req[r].password)

\* C4: a request for a target whose expiresAt had passed when the request
\* arrived is answered with the expiry denial, whatever its password and the
\* target's download count.  Stated for targets that pass the checks the
\* evaluation order puts before expiry: a public file, an active link.
C4_ExpiryDominance ==
  \A r \in Slots :
    ( /\ Done(r)
      /\ req[r].late
      /\ IF req[r].route \in CodeRoutes
         THEN Target(req[r].route, req[r].param).isPublic
         ELSE Target(req[r].route, req[r].param).isActive )
    => ExpiredResponse(req[r].resp)

\* C5: a download request that arrives after its target's expiresAt has passed
\* is denied and writes nothing: it never reaches a storage write, on any
\* download route.
C5_ExpiredDeniedNoEffect ==
  \A r \in Slots :
    (req[r].pc # "idle" /\ req[r].late /\ req[r].route \in DownloadRoutes)
    => /\ req[r].pc \in {"lookup", "done"}
       /\ req[r].wrote = 0
       /\ Done(r) => Denied(req[r].resp)

\* a download request that arrived after the expiry has been answered 410
C5_Witness ==
  \E r \in Slots :
    /\ Done(r)
    /\ req[r].late
    /\ req[r].route \in DownloadRoutes
    /\ ExpiredResponse(req[r].resp)
    /\ now > 0

\* C6: a request that names by share code a file that is not public is never
\* answered with the file or with its metadata.
C6_NotPublicNeverServed ==
  \A r \in Slots :
    ( /\ Done(r)
      /\ req[r].route \in CodeRoutes
      /\ Exists(req[r].route, req[r].param)
      /\ ~Target(req[r].route, req[r].param).isPublic )
    => ~Discloses(req[r].resp)

\* C7: a request on any shared-link route for a link with isActive = false is
\* denied and writes nothing, whatever its password and the link's expiry.
C7_InactiveDenied ==
  \A r \in Slots :
    ( /\ req[r].pc # "idle"
      /\ req[r].route \in TokenRoutes
      /\ Exists(req[r].route, req[r].param)
      /\ ~Target(req[r].route, req[r].param).isActive )
    => /\ req[r].pc \in {"lookup", "done"}
       /\ req[r].wrote = 0
       /\ Done(r) => Denied(req[r].resp)

\* a download with the right password on an inactive, unexpired link was denied
C7_Witness ==
  \E r \in Slots :
    /\ Done(r)
    /\ req[r].route = RDownloadShared
    /\ Exists(req[r].route, req[r].param)
    /\ ~links["k1"].isActive
    /\ links["k1"].passwordHash # NoHash
    /\ req[r].password = LinkPassword
    /\ ~Expired(links["k1"], now)
    /\ Denied(req[r].resp)

\* C8: whenever no download request is in flight, each download route has
\* written as many download logs as it has applied increments to its
\* target's downloadCount, also when a storage write has failed.
C8_LogPerIncrement ==
  Quiescent => \A route \in DownloadRoutes : LogsOf(route) = incs[route]

\* C9: for a target without download limit, once the download requests have
\* completed, downloadCount is the number of requests that were sent the file.
C9_ExactlyOncePerGrant ==
  Quiescent =>
    /\ files["f1"].downloadLimit = NULL
       => files["f1"].downloadCount =
            served[RCode] + served[RPublicDownload] + served[RDownloadLink]
    /\ links["k1"].downloadLimit = NULL
       => links["k1"].downloadCount = served[RDownloadLink] + served[RDownloadShared]

\* C10: no step lowers the downloadCount of a file or of a shared link.
C10_CounterMonotonic ==
  [][ /\ \A f \in DOMAIN files : files'[f].downloadCount >= files[f].downloadCount
      /\ \A k \in DOMAIN links : links'[k].downloadCount >= links[k].downloadCount ]_vars

\* C11: a download request whose storage call that writes a downloadCount
\* (of the file or of the link) threw is never sent the file: once it has
\* answered, the answer is the error of the catch block, on every download route.
C11_FailClosed ==
  \A r \in Slots :
    req[r].failed \in {"file", "link"}
    => /\ Done(r)
       /\ req[r].resp = ServerError
       /\ req[r].route \in DownloadRoutes

\* the counter write of a download threw after the download log was written
C11_Witness ==
  \E r \in Slots :
    /\ Done(r)
    /\ req[r].failed = "file"
    /\ req[r].wrote = 1
    /\ req[r].resp.status = 500
    /\ faults = 1

\* a step taken by the handler of an access-check route
InfoStep ==
  \E r \in Slots :
    /\ req[r].route \in InfoRoutes
    /\ req[r].pc \in {"lookup", "getfile"}
    /\ req'[r].pc # req[r].pc

\* C12: the access-check routes (GET /api/public/file, GET /api/shared,
\* GET /api/shared-links) are read-only and idempotent: no step of their
\* handlers changes a file row, a link row or the download logs, and two calls
\* with the same identifier and password answered on the same stored state and
\* clock (no download started, the clock not moved) get the same response.
C12_InfoReadOnly ==
  /\ [][InfoStep => UNCHANGED <<files, links, downloadLogs>>]_vars
  /\ [](\A r1, r2 \in Slots :
          ( /\ Done(r1) /\ Done(r2)
            /\ req[r1].route \in InfoRoutes
            /\ req[r1].route = req[r2].route
            /\ req[r1].param = req[r2].param
            /\ req[r1].password = req[r2].password
            /\ now = 0
            /\ \A rt \in DownloadRoutes : attempts[rt] = 0 )
          => req[r1].resp = req[r2].resp)

\* GET /api/shared/:token was answered twice with the metadata of a link that
\* has a download limit, and nothing was written
C12_Witness ==
  /\ \A r \in Slots :
       Done(r) /\ req[r].route = RShared /\ req[r].resp = ServedMeta
  /\ links["k1"].downloadLimit = 1
  /\ links["k1"].downloadCount = 0
  /\ downloadLogs = EmptyBag

\* C13: once a file is deleted no shared link and no download log references
\* it, and neither its share code nor a token of its links resolves to a row.
C13_CascadeDelete ==
  \A f \in FileIds \ DOMAIN files :
    /\ \A k \in DOMAIN links : links[k].fileId # f
    /\ \A l \in BagToSet(downloadLogs) : l.fileId # f
    /\ \A code \in ShareCodes : getFileByShareCode(code) = NoFile
    /\ \A token \in ShareTokens : getSharedLink(token) = NoLink

\* the file was downloaded through its link and then deleted, and a later
\* request by the link's token was answered 404
C13_Witness ==
  /\ "f1" \notin DOMAIN files
  /\ served[RDownloadLink] = 1
  /\ downloadLogs = EmptyBag
  /\ \E r \in Slots :
       /\ Done(r)
       /\ req[r].route \in TokenRoutes
       /\ req[r].param = "token1"
       /\ req[r].resp.status = 404

\* the response is one of the handlers' limit denials
LimitResponse(resp) ==
  resp.status \in {410, 429} /\ resp.error = "Download limit exceeded"

\* the row a download route is called on
RouteTarget(route) == IF route \in CodeRoutes THEN files["f1"] ELSE links["k1"]

\* C14: on a public target without password and expiry, with downloadLimit 2
\* and downloadCount 0, download requests issued one after another give: the
\* first two are sent the file and downloadCount becomes 2; the third is
\* denied with limit reached and downloadCount stays 2.  Stated for each
\* download route used alone on the target it is called on.
C14_ScenarioA ==
  \A route \in DownloadRoutes :
    ( /\ \A q \in Slots : Free(q)
      /\ RouteTarget(route).downloadLimit = 2
      /\ \A other \in DownloadRoutes \ {route} : attempts[other] = 0 )
    => /\ served[route] = Min(attempts[route], 2)
       /\ RouteTarget(route).downloadCount = Min(attempts[route], 2)
       /\ attempts[route] = 3 => LimitResponse(req[1].resp)

\* the third download in a row of a file with limit 2 has been denied
C14_Witness ==
  /\ \A q \in Slots : Free(q)
  /\ files["f1"].downloadLimit = 2
  /\ attempts[RPublicDownload] = 3
  /\ served[RPublicDownload] = 2
  /\ files["f1"].downloadCount = 2
  /\ req[1].resp = Deny(410, "Download limit exceeded")

\* C15: on a password-protected target that is public (a link: active), not
\* expired and without download limit, a download request with the password
\* the target was protected with is sent the file and one with another
\* password is denied as invalid password.  Stated for the download routes
\* that read a password, storage not failing and the bytes on disk.
C15_ScenarioB ==
  \A r \in Slots :
    ( /\ Done(r)
      /\ req[r].route \in PasswordRoutes \cap DownloadRoutes
      /\ Protected(req[r].route, req[r].param)
      /\ IF req[r].route \in CodeRoutes
         THEN Target(req[r].route, req[r].param).isPublic
         ELSE Target(req[r].route, req[r].param).isActive
      /\ ~Expired(Target(req[r].route, req[r].param), now)
      /\ Target(req[r].route, req[r].param).downloadLimit = NULL
      /\ req[r].password # NoPassword
      /\ faults = 0
      /\ existsSync("f1") )
    => IF req[r].password = LinkPassword
       THEN req[r].resp = ServedFile
       ELSE req[r].resp = Deny(401, "Invalid password")

\* C16: an expired or exhausted target never prompts for a password: a
\* request without password for a password-protected target whose expiresAt
\* had passed, or whose downloadCount had reached its downloadLimit (of at
\* least 1), when the request arrived is answered with the expiry or the
\* limit denial, not with a 401.  Stated for public files and active links on
\* the routes that read a password.
C16_NoPromptWhenSpent ==
  \A r \in Slots :
    ( /\ Done(r)
      /\ req[r].route \in PasswordRoutes
      /\ Protected(req[r].route, req[r].param)
      /\ IF req[r].route \in CodeRoutes
         THEN Target(req[r].route, req[r].param).isPublic
         ELSE Target(req[r].route, req[r].param).isActive
      /\ req[r].password = NoPassword
      /\ \/ req[r].late
         \/ req[r].full /\ Target(req[r].route, req[r].param).downloadLimit >= 1 )
    => /\ req[r].resp.status # 401
       /\ ExpiredResponse(req[r].resp) \/ LimitResponse(req[r].resp)

\* C17: password verification round-trips for each storage class and every
\* pairing of its hashing and validating functions: for non-empty p and q,
\* verifying p against the hash made from q is true exactly when p = q.
C17_PasswordRoundTrip ==
  (pw.stage \in {"verified", "decided"} /\ pw.hashFn # "stored")
  => (pw.result <=> pw.p = pw.q)

\* C18: verification against a malformed stored hash, throwing or not, is a
\* denial: validatePassword and validateFilePassword return false and the
\* route that called them does not let the request through.
C18_MalformedHashDenied ==
  (pw.hashFn = "stored" /\ pw.hash \in MalformedHashes)
  => /\ pw.stage \in {"verified", "decided"} => pw.result = FALSE
     /\ pw.stage = "decided" => pw.decision = Deny(401, "Invalid password")

\* compareSync threw on a malformed hash and the download route answered 401
C18_Witness ==
  /\ pw.stage = "decided"
  /\ pw.hashFn = "stored"
  /\ pw.strict
  /\ bcryptCompareThrows(pw.p, pw.hash)
  /\ pw.route = RDownloadLink
  /\ pw.result = FALSE
  /\ pw.decision.status = 401

\* C19: deactivation of a shared link is permanent: no step sets the isActive
\* of a stored link back from false to true.
C19_DeactivationPermanent ==
  [][\A k \in DOMAIN links \cap DOMAIN links' :
       ~links[k].isActive => ~links'[k].isActive]_vars

\* a download handler that had read the link before it was deactivated wrote
\* its downloadCount afterwards, and the link is still inactive
C19_Witness ==
  /\ ~links["k1"].isActive
  /\ links["k1"].downloadCount >= 1
  /\ \E r \in Slots : req[r].revoked

\* C20: a download request for a target whose downloadLimit held an integer
\* (0 included) that its downloadCount had reached when the request arrived
\* is answered with the limit denial and has written nothing.  Stated for requests
\* that pass the checks before the limit: a public, unlocked, unexpired file;
\* an active, unexpired link without password.
C20_LimitDenies ==
  \A r \in Slots :
    ( /\ req[r].route \in DownloadRoutes
      /\ Done(r)
      /\ req[r].full
      /\ ~Protected(req[r].route, req[r].param)
      /\ ~Expired(Target(req[r].route, req[r].param), now)
      /\ IF req[r].route \in CodeRoutes
         THEN Target(req[r].route, req[r].param).isPublic
         ELSE Target(req[r].route, req[r].param).isActive )
    => /\ LimitResponse(req[r].resp)
       /\ req[r].wrote = 0

\* the request was denied and exactly one denial condition held of its target
DeniedFor(r) ==
  /\ Done(r)
  /\ Denied(req[r].resp)
  /\ Cardinality(req[r].why) = 1

SameResponse(a, b) == a.status = b.status /\ a.error = b.error

\* the same reason yields the same status code and error text on every route
\* that takes the same kind of identifier
C21_Stable ==
  \A r1 \in Slots, r2 \in Slots :
    ( /\ DeniedFor(r1) /\ DeniedFor(r2)
      /\ req[r1].why = req[r2].why
      /\ (req[r1].route \in CodeRoutes) = (req[r2].route \in CodeRoutes) )
    => SameResponse(req[r1].resp, req[r2].resp)

\* two different reasons never yield the same response on one route
C21_Distinct ==
  \A r1 \in Slots, r2 \in Slots :
    ( /\ DeniedFor(r1) /\ DeniedFor(r2)
      /\ req[r1].route = req[r2].route
      /\ req[r1].why # req[r2].why )
    => ~SameResponse(req[r1].resp, req[r2].resp)

\* C21: every denial reason maps to a stable, distinct response: requests
\* denied for the same single reason (not found, inactive, not public, expired,
\* limit reached, password required, password invalid) get the same status
\* code and error text whatever the route, and requests denied for two
\* different reasons on one route get different responses.
C21_StableDistinct == C21_Stable /\ C21_Distinct

\* the step in which the handler of request r on a download route answers
\* with an access denial (not found, inactive, not public, password required
\* or invalid, expired, limit reached)
DenialStep(r) ==
  /\ req[r].pc \in {"lookup", "getfile", "write"}
  /\ req'[r].pc = "done"
  /\ req[r].route \in DownloadRoutes
  /\ Denied(req'[r].resp)
  /\ req'[r].resp # SendError

\* C22: a download request that is denied for any reason leaves every
\* downloadCount and the download logs unchanged, on every download route: it
\* made no storage write before the denial and the denial makes none.
C22_DeniedNoEffect ==
  [][\A r \in Slots :
       DenialStep(r) => /\ req[r].wrote = 0
                        /\ UNCHANGED <<files, links, downloadLogs>>]_vars

\* a download was made and a later request for the same file was denied for
\* the limit: the counter and the log of the first download are as it left them
C22_Witness ==
  \E r \in Slots :
    /\ Done(r)
    /\ req[r].route \in DownloadRoutes
    /\ LimitResponse(req[r].resp)
    /\ req[r].wrote = 0
    /\ files["f1"].downloadCount = 1
    /\ BagCardinality(downloadLogs) = 1

\* the two shared-link download routes
LinkDownloadRoutes == {RDownloadLink, RDownloadShared}

Sibling(route) == IF route = RDownloadLink THEN RDownloadShared ELSE RDownloadLink

\* what the only request of the behaviour, r, has led to
Reached(r) ==
  [granted |-> req[r].resp = ServedFile,
   linkCount |-> links["k1"].downloadCount,
   fileCount |-> files["f1"].downloadCount,
   logs |-> BagCardinality(downloadLogs)]

\* the rows as stored when the only request of the behaviour started: no
\* download had been counted
StartLink == [links["k1"] EXCEPT !.downloadCount = 0]
StartFiles == [files EXCEPT !["f1"].downloadCount = 0]

\* what the handler of the route leads to from the state the request started in
FromStart(route, param, password) ==
  LET link == IF param = StartLink.shareToken THEN StartLink ELSE NoLink
      file == IF link = NoLink THEN NoFile ELSE StartFiles[link.fileId]
      run == RunAlone(route, link, password, now)
  IN  [run EXCEPT !.fileCount = IF file = NoFile THEN 0
                                ELSE @ - files[file.id].downloadCount]

\* C23: POST /api/download/link/:token and POST /api/download/shared/:token
\* are equivalent: a request on one of them, run alone from a stored state,
\* reaches the grant-or-deny decision and leaves the link downloadCount, the
\* file downloadCount and the number of download logs that the other route
\* reaches from the same state with the same token and password.
C23_LinkRoutesEquivalent ==
  \A r \in Slots :
    (Done(r) /\ req[r].route \in LinkDownloadRoutes)
    => Reached(r) = FromStart(Sibling(req[r].route), req[r].param, req[r].password)

\* The handler of r is about to run its checks on a target that no access
\* check denies, with the file row stored and the file's bytes not on disk:
\* GET /api/public/download before its checks, POST /api/download/shared
\* after its link passed and before the checks on the file.
MissingOnDisk(r) ==
  \/ /\ req[r].pc = "lookup"
     /\ req[r].route = RPublicDownload
     /\ Exists(req[r].route, req[r].param)
     /\ Reasons(req[r].route, Target(req[r].route, req[r].param),
                req[r].password, now) = {}
     /\ ~existsSync(Target(req[r].route, req[r].param).id)
  \/ /\ req[r].pc = "getfile"
     /\ req[r].route = RDownloadShared
     /\ req[r].why = {}
     /\ getFile(req[r].link.fileId) # NoFile
     /\ ~existsSync(req[r].link.fileId)

\* C24: on GET /api/public/download/:shareCode and POST
\* /api/download/shared/:token a request that passes all access checks but
\* whose file does not exist on disk is answered 404 and changes no
\* downloadCount and appends no download log.
C24_MissingFileNoEffect ==
  [][\A r \in Slots :
       (MissingOnDisk(r) /\ req'[r] # req[r])
       => /\ req'[r].pc = "done"
          /\ req'[r].resp = Deny(404, "File not found on server")
          /\ req[r].wrote = 0
          /\ UNCHANGED <<files, links, downloadLogs>>]_vars

\* both routes have answered a request for a file that is missing from disk
C24_Witness ==
  \E r1 \in Slots, r2 \in Slots :
    /\ Done(r1) /\ req[r1].route = RPublicDownload
    /\ Done(r2) /\ req[r2].route = RDownloadShared
    /\ req[r1].resp = Deny(404, "File not found on server")
    /\ req[r2].resp = Deny(404, "File not found on server")
    /\ req[r1].why = {} /\ req[r2].why = {}
    /\ files["f1"].downloadCount = 0
    /\ links["k1"].downloadCount = 0
    /\ downloadLogs = EmptyBag

\* no authenticated request is in flight
CallsQuiescent == \A c \in CallSlots : CallFree(c)

\* C25: a user whose profile has dailyUploadCount = 0 and dailyUploadLimit = l
\* (neither changed by another route) completes at most l uploads, also when
\* the upload requests run concurrently, and each completed upload raises
\* dailyUploadCount by exactly one: once every request is answered, the
\* uploaded files are at most l and dailyUploadCount is their number.
C25_DailyUploadLimit ==
  CallsQuiescent =>
    /\ Cardinality(Uploaded) <= profiles["u1"].dailyUploadLimit
    /\ profiles["u1"].dailyUploadCount = Cardinality(Uploaded)

\* the email share request in slot c was answered that the email could not be sent
EmailShareFailed(c) ==
  /\ calls[c].pc = "done"
  /\ calls[c].route = RShareEmail
  /\ calls[c].resp = EmailFailed

\* c is the only authenticated request made so far
OnlyCall(c) == \A q \in CallSlots \ {c} : calls[q].seq = 0

\* C26: when the email of POST /api/share/email cannot be sent, the shared
\* link the request created is deleted before the request completes: once the
\* request is answered its link is not stored and its token resolves to no
\* shared link; the delete removes that link only, and after a request that
\* ran alone the shared links are those stored before its insert.
C26_FailedEmailLeavesNoLink ==
  /\ [](\A c \in CallSlots :
          EmailShareFailed(c) =>
            /\ calls[c].row \notin DOMAIN links
            /\ getSharedLink(calls[c].token) = NoLink
            /\ OnlyCall(c) => DOMAIN links = calls[c].before)
  /\ [][\A c \in CallSlots :
          (calls[c].pc = "deleteLink" /\ calls'[c].pc = "done")
          => \A k \in DOMAIN links \ {calls[c].row} :
               k \in DOMAIN links' /\ links'[k] = links[k]]_vars

\* An email share with a password failed after its link had been inserted,
\* and the link is gone.
C26_Witness ==
  \E c \in CallSlots :
    /\ EmailShareFailed(c)
    /\ OnlyCall(c)
    /\ calls[c].password = LinkPassword
    /\ calls[c].row = "k2"
    /\ calls[c].before = {"k1"}
    /\ DOMAIN links = {"k1"}

\* the request in slot c names a stored file of another user and its handler
\* is about to read the file row
NotOwner(c) ==
  /\ calls[c].pc = "getFile"
  /\ calls[c].fileId \in DOMAIN files
  /\ files[calls[c].fileId].userId # calls[c].user

\* C27: only the owner of a file can act on it through the authenticated
\* routes: a request by a user whose id differs from the file's userId to
\* read the file, delete it, create a shared link or email share for it, or
\* read its download logs is answered 404 and changes no file, shared link
\* or download log (nor the file's bytes).
C27_OwnerOnly ==
  [][\A c \in CallSlots :
       (NotOwner(c) /\ calls'[c] # calls[c])
       => /\ calls'[c].pc = "done"
          /\ calls'[c].resp = Deny(404, "File not found")
          /\ UNCHANGED <<files, links, downloadLogs, disk>>]_vars

\* the other user has asked to delete the owner's file and to email a share
\* of it; both requests were answered 404 and the file, its link and its log
\* are as they were
C27_Witness ==
  \E c1 \in CallSlots, c2 \in CallSlots :
    /\ calls[c1].pc = "done" /\ calls[c1].route = RFileDelete
    /\ calls[c2].pc = "done" /\ calls[c2].route = RShareEmail
    /\ calls[c1].user = "u2" /\ calls[c2].user = "u2"
    /\ calls[c1].fileId = "f1" /\ calls[c2].fileId = "f1"
    /\ calls[c1].resp = Deny(404, "File not found")
    /\ calls[c2].resp = Deny(404, "File not found")
    /\ files = [f \in FileIds |-> DefaultFile]
    /\ links = [k \in LinkIds |-> DefaultLink]
    /\ BagCardinality(downloadLogs) = 1
    /\ disk = FileIds

\* no registration request is in flight
NoRegistrationInFlight ==
  \A c \in CallSlots : calls[c].route = RRegister => CallFree(c)

\* C28: every registered user has exactly one profile with the same id: in
\* every state in which no registration request is in flight, a user record
\* exists if and only if a profile record with that id exists, also when a
\* storage write of the registration fails or two registrations for the same
\* email run concurrently.
C28_UserIffProfile ==
  NoRegistrationInFlight =>
    \A id \in DOMAIN users \cup DOMAIN profiles :
      id \in DOMAIN users <=> id \in DOMAIN profiles

\* a call of fetchFileInfo or of handleDownload is running
InFlight(call) == call.pc \notin {"idle", "ended"}

\* C29: on the receive page every call of fetchFileInfo ends with loading =
\* false and every call of handleDownload ends with downloading = false,
\* whatever the outcome (success, denial response, password required, or
\* network error), and every call that was started ends: the page never
\* stays in the loading or downloading state.
C29_FlagsCleared ==
  /\ [][/\ \A i \in FetchSlots :
             (InFlight(page.fetch[i]) /\ page'.fetch[i].pc = "ended")
             => ~page'.loading
        /\ (InFlight(page.download) /\ page'.download.pc = "ended")
           => ~page'.downloading]_vars
  /\ \A i \in FetchSlots : InFlight(page.fetch[i]) ~> ~InFlight(page.fetch[i])
  /\ InFlight(page.download) ~> ~InFlight(page.download)
  /\ page.loading ~> ~page.loading
  /\ page.downloading ~> ~page.downloading

\* a call of fetchFileInfo has ended on a password prompt and a call of
\* handleDownload on a network error, and neither flag is set
C29_Witness ==
  /\ \E i \in FetchSlots :
       page.fetch[i] = [pc |-> "ended", outcome |-> "password required"]
  /\ page.download = [pc |-> "ended", outcome |-> "network error"]
  /\ ~page.loading
  /\ ~page.downloading

\* share codes and tokens a lookup can be given
MemLookupCodes == MemShareCodes
MemLookupTokens == MemShareTokens

\* C30: in MemStorage, after any sequence of createFile, updateFile,
\* deleteFile, createSharedLink, updateSharedLink and deleteSharedLink, the
\* lookup indexes agree with the records: getFileByShareCode(c) returns a
\* stored file whose shareCode is c when there is one and nothing only when
\* there is none, and getSharedLink(t) likewise for the links and their
\* shareToken.
C30_IndexesAgree ==
  /\ \A c \in MemLookupCodes :
       LET f == memGetFileByShareCode(mem, c)
       IN  IF f = NoFile
           THEN \A id \in DOMAIN mem.files : mem.files[id].shareCode # c
           ELSE f.id \in DOMAIN mem.files /\ mem.files[f.id] = f /\ f.shareCode = c
  /\ \A t \in MemLookupTokens :
       LET k == memGetSharedLink(mem, t)
       IN  IF k = NoLink
           THEN \A id \in DOMAIN mem.sharedLinks : mem.sharedLinks[id].shareToken # t
           ELSE /\ k.id \in DOMAIN mem.sharedLinks
                /\ mem.sharedLinks[k.id] = k
                /\ k.shareToken = t

==========================================================================
